---- MODULE Spec2Model ----
(***************************************************************************)
(* Hackabot: the recurring-action worker (apps/worker/run.py) and the      *)
(* Telegram webhook handlers (apps/bot/views.py).                          *)
(*                                                                         *)
(* Time is counted in seconds from a Monday 00:00:00 UTC.  A timezone is   *)
(* its fixed offset from UTC in seconds (daylight-saving changes are not   *)
(* represented).  An unset (NULL) timestamp is None.                       *)
(***************************************************************************)
EXTENDS Integers, Sequences, FiniteSets, TLC

VARIABLES
    \* ---- worker (run.py) ----
    clock,                        \* wall clock, seconds
    pc,                           \* position of the worker inside run_worker
    last_poll_sent_at,            \* Node.last_poll_sent_at, per node
    last_reminder_sent_at,        \* Event.last_reminder_sent_at, per event
    last_weekly_summary_sent_at,  \* Group.last_weekly_summary_sent_at (global group)
    global_group_exists,          \* a Group row with the global chat id exists
    now_in_tz,                    \* local of process_node_events
    tick,                         \* number of check_all_nodes calls started
    tickStart,                    \* clock when the current tick started (history)
    decisions,                    \* cadence decisions of the current tick (history)
    sendLog,                      \* outbound send attempts (history)
    reported,                     \* sentry_sdk.capture_exception calls (history)
    Node,                         \* Node rows: the columns the admin form changes, per node
    nodes,                        \* the Node objects of the current tick's queryset
    yes_answers,                  \* yes answers found by the summary of the current tick
    MeetupPhoto,                  \* MeetupPhoto rows
    edits,                        \* Node rows saved through the admin (history)
    \* ---- api (views.py) ----
    api,                          \* an attendance query: its instant, rows and results
    \* ---- pure predicates applied to drawn inputs ----
    policy,
    \* ---- webhook (views.py): tables and history ----
    Person,                       \* telegram ids of the Person rows
    Group,                        \* telegram ids of the Group rows
    GroupPerson,                  \* GroupPerson rows
    ActivityDay,                  \* ActivityDay rows
    Poll,                         \* Poll rows
    PollAnswer,                   \* PollAnswer rows
    next_pk,                      \* next primary key of a PollAnswer row
    delivered,                    \* message envelopes delivered, with their number of deliveries (history)
    lastAnswer,                   \* last poll_answer of a known poll, per pair (history)
    updates,                      \* webhook requests handled (history)
    profile,                      \* Person columns is_bot, onboarded, privacy, username_x, bio, per telegram id
    welcomes,                     \* welcome messages delivered, per person (history)
    lastRequest,                  \* the last webhook request and its response (history)
    inflight,                     \* webhook requests being handled concurrently
    \* ---- worker processes running side by side (run.py) ----
    workers                       \* per process: its position, the markers of the nodes it loaded

workerVars == <<clock, pc, last_poll_sent_at, last_reminder_sent_at,
                last_weekly_summary_sent_at, global_group_exists, now_in_tz,
                tick, tickStart, decisions, sendLog, reported, workers>>

webVars == <<Person, Group, GroupPerson, ActivityDay, Poll, PollAnswer, next_pk,
             delivered, lastAnswer, updates>>

hookVars == <<profile, welcomes, lastRequest, inflight>>

adminVars == <<Node, nodes, yes_answers, MeetupPhoto, edits, api>>

vars == <<workerVars, adminVars, policy, webVars, hookVars>>

(***************************************************************************)
(* Constants of run.py and telegram.py                                     *)
(***************************************************************************)
POLL_DAY == 0
POLL_HOUR == 7
POLL_MINUTE == 0
REMINDER_MINUTES_BEFORE == 30
SUMMARY_DAY == 4
SUMMARY_HOUR == 7
SUMMARY_MINUTE == 0
CLEANUP_HOUR == 0
CLEANUP_MINUTE == 0
MAX_PHOTOS == 100
\* the offset of POLL_TIMEZONE = "UTC"
POLL_TIMEZONE == 0
COOLDOWN_DAYS == 6
SLEEP_SECONDS == 30
REQUEST_TIMEOUT == 30
TYPE_DRINKS == "drinks"
None == -1

(***************************************************************************)
(* Bounds of the model                                                     *)
(***************************************************************************)
MaxTicks == 4

(***************************************************************************)
(* Calendar arithmetic (arrow / datetime)                                  *)
(***************************************************************************)
Weekday(t) == (t \div 86400) % 7
Hour(t) == (t % 86400) \div 3600
Minute(t) == (t % 3600) \div 60
TimedeltaDays(d) == d \div 86400
ReplaceTime(t, h, m) == (t - (t % 86400)) + h * 3600 + m * 60
ShiftMinutes(t, m) == t + m * 60
At(week, day, h, m, s) == week * 604800 + day * 86400 + h * 3600 + m * 60 + s
MinuteIndex(t) == t \div 60

(***************************************************************************)
(* Persisted rows the worker reads                                         *)
(***************************************************************************)
NodeIds == <<"n1", "n2", "n3">>

\* Node.timezone is free text; a value that names no timezone
InvalidTimezone == 100000

NodeRow ==
    [n1 |-> [exists |-> TRUE, group |-> TRUE,  disabled |-> FALSE, timezone |-> 0,
             event_day |-> 3],
     n2 |-> [exists |-> TRUE, group |-> TRUE,  disabled |-> FALSE, timezone |-> 28800,
             event_day |-> 3],
     n3 |-> [exists |-> TRUE, group |-> FALSE, disabled |-> FALSE, timezone |-> 0,
             event_day |-> 3]]

EventIds == <<"e1", "e2", "e3">>

EventRow ==
    [e1 |-> [node |-> "n1", type |-> "intros", hour |-> 9,  minute |-> 30],
     e2 |-> [node |-> "n2", type |-> "drinks", hour |-> 18, minute |-> 0],
     e3 |-> [node |-> "n1", type |-> "demos",  hour |-> 9,  minute |-> 30]]

Range(s) == {s[i] : i \in DOMAIN s}

(***************************************************************************)
(* Webhook inputs (views.py)                                               *)
(***************************************************************************)
MaxDeliveries == 3
MaxPollUpdates == 4

PersonIds == {101, 102}

\* chat id |-> chat type
ChatType == [g1 |-> "supergroup", g2 |-> "group", c1 |-> "channel", p1 |-> "private"]

ChatIds == DOMAIN ChatType

PrivateChats == {c \in ChatIds : ChatType[c] = "private"}

MessageIds == {1, 2}

\* "date" of a message: 2024-01-01 00:00:00 UTC, noon of that day, the next day.
UnixDates == {1704067200, 1704110400, 1704153600}

\* A message envelope of a chat that is not private and that carries text
\* only: no new_chat_members, left_chat_member, poll or photo.
Envelopes ==
    [message_id : MessageIds, chat : ChatIds \ PrivateChats, from : PersonIds,
     date : UnixDates, text : {"", "hi"}]

PollIds == {"pl1", "pl2"}

NoUser == 0

\* telegram ids of users whose user_data says is_bot
BotIds == {900}

UserIds == PersonIds \cup BotIds

\* A text is the sequence of its characters.
Alice == <<"a", "l", "i", "c", "e">>

Help == <<"/", "h", "e", "l", "p">>

XAlice == <<"/", "x", " ">> \o Alice

\* Person() column defaults (models.py)
NewProfile ==
    [is_bot |-> FALSE, onboarded |-> FALSE, privacy |-> TRUE,
     username_x |-> << >>, bio |-> << >>]

Absent == [absent |-> TRUE]

NoRequest ==
    [req |-> [header |-> "", body |-> "none", data |-> Absent, fail |-> FALSE],
     status |-> 0, ran |-> {}, sent |-> << >>, repeat |-> FALSE]

OptionIds == {<< >>, <<0>>, <<1>>, <<1, 0>>}

VoterCounts == {<< >>, <<1, 0>>, <<0, 2>>}

WebIdle ==
    /\ Person = {}
    /\ Group = {}
    /\ GroupPerson = {}
    /\ ActivityDay = {}
    /\ Poll = {}
    /\ PollAnswer = {}
    /\ next_pk = 1
    /\ delivered = {}
    /\ lastAnswer = [k \in PollIds \X PersonIds |-> [seen |-> FALSE, option_ids |-> << >>]]
    /\ updates = 0
    /\ profile = [p \in UserIds |-> NewProfile]
    /\ welcomes = [p \in UserIds |-> 0]
    /\ lastRequest = NoRequest

(***************************************************************************)
(* Time-window predicates (run.py).  now_utc / now_in_tz is the instant    *)
(* passed by the caller; tz_now is what timezone.now() returns when the    *)
(* predicate reads it for the cooldown.                                    *)
(***************************************************************************)
should_send_poll_no_cooldown(last, now_utc, tz_now) ==
    /\ Weekday(now_utc) = POLL_DAY
    /\ Hour(now_utc) = POLL_HOUR
    /\ Minute(now_utc) = POLL_MINUTE

should_send_poll_any_minute(last, now_utc, tz_now) ==
    IF Weekday(now_utc) # POLL_DAY THEN FALSE
    ELSE IF Hour(now_utc) # POLL_HOUR THEN FALSE
    ELSE IF last # None /\ TimedeltaDays(tz_now - last) < COOLDOWN_DAYS THEN FALSE
    ELSE TRUE

should_send_poll_cooldown_7(last, now_utc, tz_now) ==
    IF Weekday(now_utc) # POLL_DAY THEN FALSE
    ELSE IF Hour(now_utc) # POLL_HOUR THEN FALSE
    ELSE IF Minute(now_utc) # POLL_MINUTE THEN FALSE
    ELSE IF last # None /\ TimedeltaDays(tz_now - last) <= COOLDOWN_DAYS THEN FALSE
    ELSE TRUE

should_send_poll(last, now_utc, tz_now) ==
    IF Weekday(now_utc) # POLL_DAY THEN FALSE
    ELSE IF Hour(now_utc) # POLL_HOUR THEN FALSE
    ELSE IF Minute(now_utc) # POLL_MINUTE THEN FALSE
    ELSE IF last # None /\ TimedeltaDays(tz_now - last) < COOLDOWN_DAYS THEN FALSE
    ELSE TRUE

reminder_datetime_always_shifted(type, event_datetime) ==
    ShiftMinutes(event_datetime, 0 - REMINDER_MINUTES_BEFORE)

reminder_datetime(type, event_datetime) ==
    IF type = TYPE_DRINKS
    THEN event_datetime
    ELSE ShiftMinutes(event_datetime, 0 - REMINDER_MINUTES_BEFORE)

should_send_event_reminder_cooldown_7(event_day, type, hour, minute, last, now, tz_now) ==
    IF Weekday(now) # event_day THEN FALSE
    ELSE LET event_datetime == ReplaceTime(now, hour, minute)
             reminder == reminder_datetime(type, event_datetime)
         IN  IF Hour(now) # Hour(reminder) THEN FALSE
             ELSE IF Minute(now) # Minute(reminder) THEN FALSE
             ELSE IF last # None /\ TimedeltaDays(tz_now - last) < COOLDOWN_DAYS + 1
                  THEN FALSE
             ELSE TRUE

should_send_event_reminder(event_day, type, hour, minute, last, now, tz_now) ==
    IF Weekday(now) # event_day THEN FALSE
    ELSE LET event_datetime == ReplaceTime(now, hour, minute)
             reminder == reminder_datetime(type, event_datetime)
         IN  IF Hour(now) # Hour(reminder) THEN FALSE
             ELSE IF Minute(now) # Minute(reminder) THEN FALSE
             ELSE IF last # None /\ TimedeltaDays(tz_now - last) < COOLDOWN_DAYS
                  THEN FALSE
             ELSE TRUE

should_send_weekly_summary(last, now_utc, tz_now) ==
    IF Weekday(now_utc) # SUMMARY_DAY THEN FALSE
    ELSE IF Hour(now_utc) # SUMMARY_HOUR THEN FALSE
    ELSE IF Minute(now_utc) # SUMMARY_MINUTE THEN FALSE
    ELSE IF last # None /\ TimedeltaDays(tz_now - last) < COOLDOWN_DAYS THEN FALSE
    ELSE TRUE

(***************************************************************************)
(* The worker: run_worker / check_all_nodes and the per-entity handlers    *)
(***************************************************************************)
\* Node.objects.filter(group__isnull=False, disabled=False), in a fixed order
EligibleNodes ==
    SelectSeq(NodeIds, LAMBDA n : Node[n].exists /\ Node[n].group /\ ~Node[n].disabled)

\* the Node objects the queryset of a tick yields: the rows as read then
Loaded(ids) == [i \in DOMAIN ids |-> [id |-> ids[i], row |-> Node[ids[i]]]]

EventsOf(n) == SelectSeq(EventIds, LAMBDA e : EventRow[e].node = n)

\* A request to the Telegram API returns or raises within REQUEST_TIMEOUT.
SendDurations == {0, REQUEST_TIMEOUT}

\* send_poll: "ok" returns; "raise" the sendPoll request fails; "partial" the
\* poll is posted and the following invite message fails.
PollOutcomes == {"ok", "raise", "partial"}

\* send_event_reminder: one send() that returns or raises.
ReminderOutcomes == {"ok", "raise"}

\* send_weekly_attendance_summary: True after the send, False when there is
\* nothing to report, or the send raises.
SummaryOutcomes == {"ok", "nothing", "raise"}

Raised(res) == res \in {"raise", "partial"}

arrow_now_tick_start(tz) == tickStart + tz

arrow_now(tz) == clock + tz

timezone_now == clock

poll_now_in_node_timezone(node) == arrow_now(node.row.timezone)

\* now_utc = arrow.now(POLL_TIMEZONE) of process_node_poll
poll_now(node) == arrow_now(POLL_TIMEZONE)

marker_written_before_send(before, res, now) ==
    IF res = "nothing" THEN before ELSE now

marker_not_stored(before, res, now) == before

marker_after_send(before, res, now) ==
    IF res = "ok" THEN now ELSE before

node_saved_all_columns(table, node) == [table EXCEPT ![node.id] = node.row]

\* node.save(update_fields=["last_poll_sent_at"]): the other columns of the
\* stored row are not written
node_saved(table, node) == table

\* PollAnswer rows with yes=True the summary may find, as the node of the
\* poll (NoNode for a poll without node) and the poll's created
NoNode == "-"

YesAnswerSets(now) ==
    {{}, {[node |-> "n1", created |-> now - 3 * 86400]},
     {[node |-> "n2", created |-> now - 7 * 86400]},
     {[node |-> "n1", created |-> now - 7 * 86400 - 1]},
     {[node |-> NoNode, created |-> now - 3 * 86400]}}

nodes_with_attendance_of_any_poll(answers, now) ==
    {a.node : a \in {a \in answers : a.created >= now - 7 * 86400}}

\* send_weekly_attendance_summary: the nodes of the yes answers on polls that
\* have a node and were created in the last seven days
nodes_with_attendance(answers, now) ==
    {a.node : a \in {a \in answers : a.node # NoNode /\ a.created >= now - 7 * 86400}}

\* should_cleanup_photos
should_cleanup_photos(now_utc) ==
    Hour(now_utc) = CLEANUP_HOUR /\ Minute(now_utc) = CLEANUP_MINUTE

newest_ids(rows, to_delete) ==
    LET newer(r) == {x \in rows : x.created > r.created}
        cut == CHOOSE r \in rows :
                  /\ Cardinality(newer(r)) < to_delete
                  /\ Cardinality({x \in rows : x.created >= r.created}) >= to_delete
        must == {x.id : x \in newer(cut)}
        ties == {x.id : x \in {x \in rows : x.created = cut.created}}
    IN  {must \cup some : some \in {s \in SUBSET ties :
                                       Cardinality(s) = to_delete - Cardinality(must)}}

\* MeetupPhoto.objects.order_by("created").values_list("id")[:to_delete]: the
\* order of rows with the same created is the database's choice
oldest_ids(rows, to_delete) ==
    LET older(r) == {x \in rows : x.created < r.created}
        cut == CHOOSE r \in rows :
                  /\ Cardinality(older(r)) < to_delete
                  /\ Cardinality({x \in rows : x.created <= r.created}) >= to_delete
        must == {x.id : x \in older(cut)}
        ties == {x.id : x \in {x \in rows : x.created = cut.created}}
    IN  {must \cup some : some \in {s \in SUBSET ties :
                                       Cardinality(s) = to_delete - Cardinality(must)}}

Pc(at, i, j) == [at |-> at, i |-> i, j |-> j]

next_node(i) ==
    IF i < Len(nodes) THEN Pc("poll", i + 1, 0) ELSE Pc("summary", 0, 0)

after_poll_error_propagates(res, i) ==
    IF Raised(res) THEN Pc("sleep", 0, 0) ELSE Pc("events", i, 0)

after_poll(res, i) == Pc("events", i, 0)

Decision(kind, ent, last, at, cool, due) ==
    [kind |-> kind, ent |-> ent, last |-> last, at |-> at, cool |-> cool,
     due |-> due]

Attempt(kind, ent, now, at, done, res, before) ==
    [tick |-> tick, kind |-> kind, ent |-> ent, now |-> now, at |-> at,
     done |-> done, res |-> res, before |-> before]

check_all_nodes ==
    /\ pc.at = "idle"
    /\ tick < MaxTicks
    /\ tick' = tick + 1
    /\ tickStart' = clock
    /\ decisions' = << >>
    /\ nodes' = Loaded(EligibleNodes)
    /\ yes_answers' = {}
    /\ pc' = IF Len(nodes') > 0 THEN Pc("poll", 1, 0) ELSE Pc("summary", 0, 0)
    /\ UNCHANGED <<clock, last_poll_sent_at, last_reminder_sent_at,
                   last_weekly_summary_sent_at, global_group_exists, now_in_tz,
                   sendLog, reported, Node, MeetupPhoto, edits, api,
                   policy, webVars, hookVars, workers>>

process_node_poll ==
    /\ pc.at = "poll"
    /\ LET n == nodes[pc.i].id
           now_utc == poll_now(nodes[pc.i])
           before == last_poll_sent_at[n]
           due == should_send_poll(before, now_utc, timezone_now)
       IN  /\ decisions' = Append(decisions,
                                  Decision("poll", n, before, now_utc, timezone_now, due))
           /\ IF due
              THEN \E res \in PollOutcomes, dur \in SendDurations :
                     /\ clock' = clock + dur
                     /\ last_poll_sent_at' =
                          [last_poll_sent_at EXCEPT
                             ![n] = marker_after_send(before, res, clock')]
                     /\ Node' = IF res = "ok" THEN node_saved(Node, nodes[pc.i]) ELSE Node
                     /\ reported' = IF Raised(res) THEN reported + 1 ELSE reported
                     /\ sendLog' = Append(sendLog,
                                          Attempt("poll", n, now_utc, clock, clock',
                                                  res, before))
                     /\ pc' = after_poll(res, pc.i)
              ELSE /\ pc' = Pc("events", pc.i, 0)
                   /\ UNCHANGED <<clock, last_poll_sent_at, reported, sendLog, Node>>
    /\ UNCHANGED <<last_reminder_sent_at, last_weekly_summary_sent_at,
                   global_group_exists, now_in_tz, tick, tickStart,
                   nodes, yes_answers, MeetupPhoto, edits, api,
                   policy, webVars, hookVars, workers>>

after_error_exit == Pc("stopped", 0, 0)

\* the except clause of run_worker: after the report the loop sleeps and goes on
after_error == Pc("sleep", 0, 0)

\* arrow.now(node.timezone or "UTC") raises for a name that is no timezone;
\* nothing in process_node_events or check_all_nodes catches it, so it ends
\* the tick in run_worker's handler, which reports it and sleeps
process_node_events ==
    /\ pc.at = "events"
    /\ LET node == nodes[pc.i]
       IN  IF node.row.timezone = InvalidTimezone
           THEN /\ reported' = reported + 1
                /\ pc' = after_error
                /\ UNCHANGED now_in_tz
           ELSE /\ now_in_tz' = arrow_now(node.row.timezone)
                /\ pc' = IF Len(EventsOf(node.id)) > 0 THEN Pc("event", pc.i, 1)
                         ELSE next_node(pc.i)
                /\ UNCHANGED reported
    /\ UNCHANGED <<clock, last_poll_sent_at, last_reminder_sent_at,
                   last_weekly_summary_sent_at, global_group_exists,
                   tick, tickStart, decisions, sendLog,
                   Node, nodes, yes_answers, MeetupPhoto, edits, api,
                   policy, webVars, hookVars, workers>>

\* event.node is read from the Node table when the predicate asks for it
process_event ==
    /\ pc.at = "event"
    /\ LET n == nodes[pc.i].id
           tz == nodes[pc.i].row.timezone
           e == EventsOf(n)[pc.j]
           row == EventRow[e]
           before == last_reminder_sent_at[e]
           due == should_send_event_reminder(Node[n].event_day, row.type,
                                             row.hour, row.minute, before,
                                             now_in_tz, timezone_now)
       IN  /\ decisions' = Append(decisions,
                                  Decision("reminder", e, before,
                                           now_in_tz - tz, timezone_now, due))
           /\ IF due
              THEN \E res \in ReminderOutcomes, dur \in SendDurations :
                     /\ clock' = clock + dur
                     /\ last_reminder_sent_at' =
                          [last_reminder_sent_at EXCEPT
                             ![e] = marker_after_send(before, res, clock')]
                     /\ reported' = IF Raised(res) THEN reported + 1 ELSE reported
                     /\ sendLog' = Append(sendLog,
                                          Attempt("reminder", e, now_in_tz - tz,
                                                  clock, clock', res, before))
              ELSE UNCHANGED <<clock, last_reminder_sent_at, reported, sendLog>>
           /\ pc' = IF pc.j < Len(EventsOf(n)) THEN Pc("event", pc.i, pc.j + 1)
                    ELSE next_node(pc.i)
    /\ UNCHANGED <<last_poll_sent_at, last_weekly_summary_sent_at,
                   global_group_exists, now_in_tz, tick, tickStart,
                   Node, nodes, yes_answers, MeetupPhoto, edits, api,
                   policy, webVars, hookVars, workers>>

\* the yes answers stored when the summary is prepared are an input of the step
process_weekly_summary ==
    /\ pc.at = "summary"
    /\ pc' = Pc("cleanup", 0, 0)
    /\ LET now_utc == arrow_now(POLL_TIMEZONE)
           before == last_weekly_summary_sent_at
           due == should_send_weekly_summary(before, now_utc, timezone_now)
       IN  IF ~global_group_exists
           THEN UNCHANGED <<clock, last_weekly_summary_sent_at, reported,
                            sendLog, decisions, yes_answers>>
           ELSE /\ decisions' = Append(decisions,
                                       Decision("summary", "global", before,
                                                now_utc, timezone_now, due))
                /\ IF due
                   THEN \E answers \in YesAnswerSets(timezone_now) :
                        \E res \in (IF nodes_with_attendance(answers, timezone_now) = {}
                                    THEN {"nothing"} ELSE SummaryOutcomes \ {"nothing"}) :
                        \E dur \in (IF res = "nothing" THEN {0} ELSE SendDurations) :
                          /\ yes_answers' = answers
                          /\ clock' = clock + dur
                          /\ last_weekly_summary_sent_at' =
                               marker_after_send(before, res, clock')
                          /\ reported' = IF Raised(res) THEN reported + 1 ELSE reported
                          /\ sendLog' = Append(sendLog,
                                               Attempt("summary", "global", now_utc,
                                                       clock, clock', res, before))
                   ELSE UNCHANGED <<clock, last_weekly_summary_sent_at, reported,
                                    sendLog, yes_answers>>
    /\ UNCHANGED <<last_poll_sent_at, last_reminder_sent_at, global_group_exists,
                   now_in_tz, tick, tickStart, Node, nodes, MeetupPhoto, edits, api,
                   policy, webVars, hookVars, workers>>

process_photo_cleanup ==
    /\ pc.at = "cleanup"
    /\ pc' = Pc("sleep", 0, 0)
    /\ LET now_utc == arrow_now(POLL_TIMEZONE)
           total == Cardinality(MeetupPhoto)
           due == should_cleanup_photos(now_utc)
       IN  /\ decisions' = Append(decisions,
                                  Decision("cleanup", "photos", None, now_utc,
                                           timezone_now, due))
           /\ IF ~due \/ total <= MAX_PHOTOS
              THEN UNCHANGED MeetupPhoto
              ELSE \E ids \in oldest_ids(MeetupPhoto, total - MAX_PHOTOS) :
                      MeetupPhoto' = {r \in MeetupPhoto : r.id \notin ids}
    /\ UNCHANGED <<clock, last_poll_sent_at, last_reminder_sent_at,
                   last_weekly_summary_sent_at, global_group_exists, now_in_tz,
                   tick, tickStart, sendLog, reported,
                   Node, nodes, yes_answers, edits, api, policy, webVars, hookVars, workers>>

sleep ==
    /\ pc.at = "sleep"
    /\ clock' = clock + SLEEP_SECONDS
    /\ pc' = Pc("idle", 0, 0)
    /\ UNCHANGED <<last_poll_sent_at, last_reminder_sent_at,
                   last_weekly_summary_sent_at, global_group_exists, now_in_tz,
                   tick, tickStart, decisions, sendLog, reported,
                   adminVars, policy, webVars, hookVars, workers>>

\* The api views have not been called.
ApiIdle ==
    [now |-> 0, polls |-> {}, answers |-> {}, done |-> FALSE,
     attending |-> [n \in Range(NodeIds) |-> {}],
     attending_count |-> [n \in Range(NodeIds) |-> 0]]

WorkerStopped ==
    /\ clock = 0
    /\ pc = Pc("idle", 0, 0)
    /\ last_poll_sent_at = [n \in Range(NodeIds) |-> None]
    /\ last_reminder_sent_at = [e \in Range(EventIds) |-> None]
    /\ last_weekly_summary_sent_at = None
    /\ global_group_exists = FALSE
    /\ now_in_tz = 0
    /\ tick = 0
    /\ tickStart = 0
    /\ decisions = << >>
    /\ sendLog = << >>
    /\ reported = 0
    /\ Node = NodeRow
    /\ nodes = << >>
    /\ yes_answers = {}
    /\ MeetupPhoto = {}
    /\ edits = 0

WorkerIdle == WorkerStopped /\ api = ApiIdle

\* The worker may be started at any time, against whatever markers earlier
\* runs persisted; the starting instants below lie just before, or inside,
\* the target minutes of the poll, the two reminders and the summary.
StartClocks ==
    {At(1, 0, 6, 59, 30), At(1, 0, 7, 0, 0), At(1, 3, 8, 59, 30),
     At(1, 3, 9, 59, 30), At(1, 4, 6, 59, 30)}

\* A marker is unset or was written in last week's target minute.
MarkersAt(c) == {None, c - 604800 + 60}

\* No second worker process runs.
NoWorkers == << >>

PolicyIdle ==
    [kind |-> "none", event_day |-> 0, type |-> "", hour |-> 0, minute |-> 0,
     tz |-> 0, last |-> None, now |-> 0, done |-> FALSE, result |-> FALSE]

WorkerInit ==
    /\ clock \in StartClocks
    /\ pc = Pc("idle", 0, 0)
    /\ last_poll_sent_at \in [Range(NodeIds) -> MarkersAt(clock)]
    /\ last_reminder_sent_at \in [Range(EventIds) -> MarkersAt(clock)]
    /\ last_weekly_summary_sent_at \in MarkersAt(clock)
    /\ global_group_exists \in BOOLEAN
    /\ now_in_tz = clock
    /\ tick = 0
    /\ tickStart = clock
    /\ decisions = << >>
    /\ sendLog = << >>
    /\ reported = 0
    /\ Node = NodeRow
    /\ nodes = << >>
    /\ yes_answers = {}
    /\ MeetupPhoto = {}
    /\ edits = 0
    /\ api = ApiIdle
    /\ policy = PolicyIdle
    /\ workers = NoWorkers
    /\ WebIdle
    /\ inflight = << >>

WorkerNext ==
    \/ check_all_nodes
    \/ process_node_poll
    \/ process_node_events
    \/ process_event
    \/ process_weekly_summary
    \/ process_photo_cleanup
    \/ sleep

Spec == WorkerInit /\ [][WorkerNext]_vars

(***************************************************************************)
(* The worker while Node rows are saved through the admin.  A save changes *)
(* one column of one row, at any moment of a tick or between ticks.        *)
(***************************************************************************)
MaxEdits == 2

\* node n3 is created, n2 enabled, n1 disabled, n1 given a timezone that does
\* not exist
NodeEdits ==
    {[node |-> "n3", column |-> "exists", value |-> TRUE],
     [node |-> "n2", column |-> "disabled", value |-> FALSE],
     [node |-> "n1", column |-> "disabled", value |-> TRUE],
     [node |-> "n1", column |-> "timezone", value |-> InvalidTimezone]}

admin_save_node ==
    /\ edits < MaxEdits
    /\ edits' = edits + 1
    /\ \E e \in NodeEdits :
          /\ Node[e.node][e.column] # e.value
          /\ Node' = [Node EXCEPT ![e.node][e.column] = e.value]
    /\ UNCHANGED <<workerVars, nodes, yes_answers, MeetupPhoto, api,
                   policy, webVars, hookVars>>

\* n1 is enabled, n2 disabled, n3 not created yet (it will have a group)
AdminNodes ==
    [NodeRow EXCEPT !.n2.disabled = TRUE, !.n3.exists = FALSE, !.n3.group = TRUE]

AdminClocks == {At(1, 0, 6, 59, 30), At(1, 3, 8, 59, 30), At(1, 4, 6, 59, 30)}

AdminInit ==
    /\ clock \in AdminClocks
    /\ pc = Pc("idle", 0, 0)
    /\ last_poll_sent_at = [n \in Range(NodeIds) |-> None]
    /\ last_reminder_sent_at = [e \in Range(EventIds) |-> None]
    /\ last_weekly_summary_sent_at = None
    /\ global_group_exists = TRUE
    /\ now_in_tz = clock
    /\ tick = 0
    /\ tickStart = clock
    /\ decisions = << >>
    /\ sendLog = << >>
    /\ reported = 0
    /\ Node = AdminNodes
    /\ nodes = << >>
    /\ yes_answers = {}
    /\ MeetupPhoto = {}
    /\ edits = 0
    /\ api = ApiIdle
    /\ policy = PolicyIdle
    /\ workers = NoWorkers
    /\ WebIdle
    /\ inflight = << >>

AdminNext == WorkerNext \/ admin_save_node

AdminSpec == AdminInit /\ [][AdminNext]_vars

(***************************************************************************)
(* The worker loop with a node whose timezone does not exist.  The admin   *)
(* may disable the node.  run_worker is one process whose loop has no      *)
(* exit, so a step of the worker that can be taken is taken eventually.    *)
(***************************************************************************)
LoopNodes ==
    {[NodeRow EXCEPT !.n1.timezone = InvalidTimezone],
     [NodeRow EXCEPT !.n2.timezone = InvalidTimezone]}

LoopInit ==
    /\ clock \in AdminClocks
    /\ pc = Pc("idle", 0, 0)
    /\ last_poll_sent_at = [n \in Range(NodeIds) |-> None]
    /\ last_reminder_sent_at = [e \in Range(EventIds) |-> None]
    /\ last_weekly_summary_sent_at = None
    /\ global_group_exists = TRUE
    /\ now_in_tz = clock
    /\ tick = 0
    /\ tickStart = clock
    /\ decisions = << >>
    /\ sendLog = << >>
    /\ reported = 0
    /\ Node \in LoopNodes
    /\ nodes = << >>
    /\ yes_answers = {}
    /\ MeetupPhoto = {}
    /\ edits = 0
    /\ api = ApiIdle
    /\ policy = PolicyIdle
    /\ workers = NoWorkers
    /\ WebIdle
    /\ inflight = << >>

LoopNext == WorkerNext \/ admin_save_node

LoopSpec == LoopInit /\ [][LoopNext]_vars /\ WF_vars(WorkerNext)


(***************************************************************************)
(* Two worker processes run run_worker side by side against one database.  *)
(* Each loads the eligible nodes at the start of its tick (the queryset of  *)
(* check_all_nodes holds the markers as they were read), decides per node,  *)
(* sends, and writes the marker after the send returned.  Time passes       *)
(* while a process sleeps.                                                  *)
(***************************************************************************)
Workers == {1, 2}

MaxWorkerTicks == 2

PairClocks == {At(1, 0, 6, 59, 30), At(1, 0, 7, 0, 0)}

Proc(at, i, last, now, wake, ticks) ==
    [at |-> at, i |-> i, last |-> last, now |-> now, wake |-> wake, ticks |-> ticks]

\* after node i: the next node, or time.sleep(30) at the end of the tick
proc_next(p, i) ==
    IF i < Len(EligibleNodes)
    THEN [p EXCEPT !.at = "poll", !.i = i + 1]
    ELSE [p EXCEPT !.at = "idle", !.i = 0, !.wake = clock + SLEEP_SECONDS]

\* check_all_nodes of process w: the queryset is evaluated, the Node objects
\* carry last_poll_sent_at as stored at this moment
proc_check_all_nodes(w) ==
    /\ workers[w].at = "idle"
    /\ workers[w].wake <= clock
    /\ workers[w].ticks < MaxWorkerTicks
    /\ workers' = [workers EXCEPT
                     ![w] = IF Len(EligibleNodes) > 0
                            THEN Proc("poll", 1, last_poll_sent_at, 0, @.wake,
                                      @.ticks + 1)
                            ELSE Proc("idle", 0, last_poll_sent_at, 0,
                                      clock + SLEEP_SECONDS, @.ticks + 1)]
    /\ UNCHANGED <<clock, pc, last_poll_sent_at, last_reminder_sent_at,
                   last_weekly_summary_sent_at, global_group_exists, now_in_tz,
                   tick, tickStart, decisions, sendLog, reported,
                   adminVars, policy, webVars, hookVars>>

\* process_node_poll of process w up to the call of send_poll
proc_process_node_poll(w) ==
    /\ workers[w].at = "poll"
    /\ LET p == workers[w]
           n == EligibleNodes[p.i]
           due == should_send_poll(p.last[n], arrow_now(POLL_TIMEZONE), timezone_now)
       IN  workers' = [workers EXCEPT
                         ![w] = IF due THEN [p EXCEPT !.at = "send_poll", !.now = clock]
                                ELSE proc_next(p, p.i)]
    /\ UNCHANGED <<clock, pc, last_poll_sent_at, last_reminder_sent_at,
                   last_weekly_summary_sent_at, global_group_exists, now_in_tz,
                   tick, tickStart, decisions, sendLog, reported,
                   adminVars, policy, webVars, hookVars>>

\* send_poll returns or raises in process w; on return the marker is saved
proc_send_poll(w) ==
    /\ workers[w].at = "send_poll"
    /\ LET p == workers[w]
           n == EligibleNodes[p.i]
       IN  \E res \in PollOutcomes :
              /\ last_poll_sent_at' =
                   [last_poll_sent_at EXCEPT
                      ![n] = marker_after_send(@, res, timezone_now)]
              /\ reported' = IF Raised(res) THEN reported + 1 ELSE reported
              /\ sendLog' = Append(sendLog,
                                   [w |-> w, kind |-> "poll", ent |-> n, now |-> p.now,
                                    done |-> clock, res |-> res, before |-> p.last[n]])
              /\ workers' = [workers EXCEPT ![w] = proc_next(p, p.i)]
    /\ UNCHANGED <<clock, pc, last_reminder_sent_at,
                   last_weekly_summary_sent_at, global_group_exists, now_in_tz,
                   tick, tickStart, decisions,
                   adminVars, policy, webVars, hookVars>>

\* time passes while a process sleeps before a tick it has still to run
time_passes ==
    /\ \E w \in Workers :
          /\ workers[w].at = "idle"
          /\ workers[w].ticks < MaxWorkerTicks
          /\ workers[w].wake > clock
    /\ clock' = clock + SLEEP_SECONDS
    /\ UNCHANGED <<pc, last_poll_sent_at, last_reminder_sent_at,
                   last_weekly_summary_sent_at, global_group_exists, now_in_tz,
                   tick, tickStart, decisions, sendLog, reported, workers,
                   adminVars, policy, webVars, hookVars>>

\* n1 is the one eligible node
PairNodes == [NodeRow EXCEPT !.n2.disabled = TRUE]

\* both processes are started in the same half minute, against the marker
\* earlier runs persisted
PairInit ==
    /\ clock \in PairClocks
    /\ pc = Pc("idle", 0, 0)
    /\ \E m \in MarkersAt(clock) :
          last_poll_sent_at = [n \in Range(NodeIds) |-> IF n = "n1" THEN m ELSE None]
    /\ last_reminder_sent_at = [e \in Range(EventIds) |-> None]
    /\ last_weekly_summary_sent_at = None
    /\ global_group_exists = FALSE
    /\ now_in_tz = clock
    /\ tick = 0
    /\ tickStart = clock
    /\ decisions = << >>
    /\ sendLog = << >>
    /\ reported = 0
    /\ Node = PairNodes
    /\ nodes = << >>
    /\ yes_answers = {}
    /\ MeetupPhoto = {}
    /\ edits = 0
    /\ api = ApiIdle
    /\ policy = PolicyIdle
    /\ workers = [w \in Workers |-> Proc("idle", 0, last_poll_sent_at, 0, clock, 0)]
    /\ WebIdle
    /\ inflight = << >>

PairNext ==
    \/ \E w \in Workers : proc_check_all_nodes(w)
    \/ \E w \in Workers : proc_process_node_poll(w)
    \/ \E w \in Workers : proc_send_poll(w)
    \/ time_passes

PairSpec == PairInit /\ [][PairNext]_vars

(***************************************************************************)
(* The worker around midnight UTC, with photos stored.                     *)
(***************************************************************************)
\* n photos, created a minute apart
Photos(n) == {[id |-> i, created |-> i * 60] : i \in 1..n}

\* one photo more than the maximum, the two oldest created at the same time
TiedPhotos ==
    {[id |-> i, created |-> IF i = 1 THEN 120 ELSE i * 60] : i \in 1..(MAX_PHOTOS + 1)}

PhotoSets ==
    {Photos(0), Photos(MAX_PHOTOS - 1), Photos(MAX_PHOTOS), Photos(MAX_PHOTOS + 1),
     Photos(MAX_PHOTOS + 2), TiedPhotos}

PhotoClocks == {At(1, 0, 23, 59, 30), At(1, 2, 12, 0, 0)}

PhotoInit ==
    /\ clock \in PhotoClocks
    /\ pc = Pc("idle", 0, 0)
    /\ last_poll_sent_at = [n \in Range(NodeIds) |-> None]
    /\ last_reminder_sent_at = [e \in Range(EventIds) |-> None]
    /\ last_weekly_summary_sent_at = None
    /\ global_group_exists \in BOOLEAN
    /\ now_in_tz = clock
    /\ tick = 0
    /\ tickStart = clock
    /\ decisions = << >>
    /\ sendLog = << >>
    /\ reported = 0
    /\ Node = NodeRow
    /\ nodes = << >>
    /\ yes_answers = {}
    /\ MeetupPhoto \in PhotoSets
    /\ edits = 0
    /\ api = ApiIdle
    /\ policy = PolicyIdle
    /\ workers = NoWorkers
    /\ WebIdle
    /\ inflight = << >>

PhotoSpec == PhotoInit /\ [][WorkerNext]_vars

(***************************************************************************)
(* The attendance of the api views, applied to drawn instants and rows     *)
(***************************************************************************)
get_attending_window_friday_included(now) ==
    LET this_monday == ReplaceTime(now, 7, 0) - Weekday(now) * 86400
        monday_7am == IF now < this_monday THEN this_monday - 7 * 86400
                      ELSE this_monday
        friday_7am == monday_7am + 4 * 86400
    IN  IF now > friday_7am THEN None ELSE monday_7am

\* _get_attending_window
get_attending_window(now) ==
    LET this_monday == ReplaceTime(now, 7, 0) - Weekday(now) * 86400
        monday_7am == IF now < this_monday THEN this_monday - 7 * 86400
                      ELSE this_monday
        friday_7am == monday_7am + 4 * 86400
    IN  IF now >= friday_7am THEN None ELSE monday_7am

\* PollAnswer.objects.filter(poll__node=node, poll__created__gte=window_start,
\* yes=True)
attending_answers(node, window_start, polls, answers) ==
    {a \in answers :
        /\ a.yes
        /\ \E p \in polls : p.id = a.poll /\ p.node = node /\ p.created >= window_start}

\* _get_this_weeks_attending_person_ids
get_this_weeks_attending_person_ids(node, now, polls, answers) ==
    IF ~Node[node].group THEN {}
    ELSE IF get_attending_window(now) = None THEN {}
    ELSE {a.person : a \in attending_answers(node, get_attending_window(now),
                                             polls, answers)}

\* _get_this_weeks_attending_count
get_this_weeks_attending_count(node, now, polls, answers) ==
    IF ~Node[node].group THEN 0
    ELSE IF get_attending_window(now) = None THEN 0
    ELSE Cardinality(attending_answers(node, get_attending_window(now), polls, answers))

\* instants around the start and the end of the window of week 1
AttendTimes ==
    {At(1, 0, 6, 59, 59), At(1, 0, 7, 0, 0), At(1, 2, 10, 0, 0), At(1, 4, 6, 59, 59),
     At(1, 4, 7, 0, 0), At(1, 5, 10, 0, 0), At(1, 6, 23, 59, 59), At(2, 0, 0, 0, 0)}

\* Poll.created of the poll of n1
CreatedTimes ==
    {At(0, 0, 7, 0, 0), At(1, 0, 6, 59, 59), At(1, 0, 7, 0, 0), At(1, 2, 9, 0, 0)}

\* pl2 is the poll of n2, or a second poll of n1 sent in the same minute
ApiPolls ==
    {{[id |-> "pl1", node |-> "n1", created |-> c],
      [id |-> "pl2", node |-> n, created |-> At(1, 0, 7, 0, 30)]} :
         c \in CreatedTimes, n \in {"n1", "n2"}}

Voters == {<<"pl1", 101>>, <<"pl1", 102>>, <<"pl2", 101>>}

\* the PollAnswer rows of a choice of yes, no or no answer per voter
ApiAnswers ==
    {{[poll |-> v[1], person |-> v[2], yes |-> (f[v] = "yes")] :
         v \in {v \in Voters : f[v] # "none"}} : f \in [Voters -> {"yes", "no", "none"}]}

\* api_nodes: attending_count and the attending persons of every node
api_nodes ==
    /\ ~api.done
    /\ api' = [api EXCEPT
                 !.done = TRUE,
                 !.attending = [n \in Range(NodeIds) |->
                                  get_this_weeks_attending_person_ids(
                                      n, api.now, api.polls, api.answers)],
                 !.attending_count = [n \in Range(NodeIds) |->
                                        get_this_weeks_attending_count(
                                            n, api.now, api.polls, api.answers)]]
    /\ UNCHANGED <<workerVars, Node, nodes, yes_answers, MeetupPhoto, edits,
                   policy, webVars, hookVars>>

AttendInit ==
    /\ WorkerStopped
    /\ policy = PolicyIdle
    /\ workers = NoWorkers
    /\ WebIdle
    /\ inflight = << >>
    /\ \E now \in AttendTimes, polls \in ApiPolls, answers \in ApiAnswers :
          api = [ApiIdle EXCEPT !.now = now, !.polls = polls, !.answers = answers]

AttendNext == api_nodes

AttendSpec == AttendInit /\ [][AttendNext]_vars

(***************************************************************************)
(* The time-window predicates applied to drawn inputs.  An input is the    *)
(* instant of the call (now, UTC), the entity's marker (last) and, for a   *)
(* reminder, the event's day, type and time and the node's timezone.  The  *)
(* predicate is called as the worker calls it: with now expressed in the   *)
(* cadence's timezone, timezone.now() being the same instant.              *)
(***************************************************************************)
EventTypes == {"intros", "lunch", "demos", "drinks"}

\* Ages of a marker at the call, in seconds.
MarkerAges == {30, 259200, 518400 - 30, 518400, 604800 - 89, 604800 - 30, 604800}

\* Times of day (hour, minute, second) around the poll and summary targets.
CadenceTimes ==
    {<<6, 59, 30>>, <<7, 0, 0>>, <<7, 0, 30>>, <<7, 1, 0>>, <<7, 30, 0>>, <<8, 0, 0>>}

\* Event times of day, and local times of day around their reminder targets.
EventTimes == {<<9, 30>>, <<18, 0>>, <<0, 15>>}

ReminderTimes ==
    {<<8, 59, 30>>, <<9, 0, 0>>, <<9, 0, 30>>, <<9, 30, 0>>, <<10, 0, 0>>,
     <<17, 30, 0>>, <<18, 0, 30>>, <<18, 30, 0>>, <<23, 45, 0>>, <<0, 15, 30>>}

Timezones == {0, 28800}

CadenceInputs(kind) ==
    {[kind |-> kind, event_day |-> 0, type |-> "", hour |-> 0, minute |-> 0,
      tz |-> 0, last |-> l, now |-> n, done |-> FALSE, result |-> FALSE] :
        <<n, l>> \in UNION {
            {<<At(2, d, t[1], t[2], t[3]), None>>} \cup
            {<<At(2, d, t[1], t[2], t[3]), At(2, d, t[1], t[2], t[3]) - a>> :
                 a \in MarkerAges} : d \in 0..6, t \in CadenceTimes}}

ReminderInputs ==
    {[kind |-> "reminder", event_day |-> ed, type |-> ty, hour |-> et[1],
      minute |-> et[2], tz |-> z, last |-> l, now |-> n - z, done |-> FALSE,
      result |-> FALSE] :
        ed \in {0, 3, 6}, ty \in EventTypes, et \in EventTimes, z \in Timezones,
        <<n, l>> \in UNION {
            {<<At(2, d, t[1], t[2], t[3]), None>>,
             <<At(2, d, t[1], t[2], t[3]), At(2, d, t[1], t[2], t[3]) - 259200>>,
             <<At(2, d, t[1], t[2], t[3]), At(2, d, t[1], t[2], t[3]) - (604800 - 89)>>,
             <<At(2, d, t[1], t[2], t[3]), At(2, d, t[1], t[2], t[3]) - 604800>>} :
                 d \in {0, 2, 3, 4, 6}, t \in ReminderTimes}}

eval_poll ==
    /\ policy.kind = "poll" /\ ~policy.done
    /\ policy' = [policy EXCEPT
                    !.done = TRUE,
                    !.result = should_send_poll(policy.last, policy.now, policy.now)]
    /\ UNCHANGED <<workerVars, adminVars, webVars, hookVars>>

eval_summary ==
    /\ policy.kind = "summary" /\ ~policy.done
    /\ policy' = [policy EXCEPT
                    !.done = TRUE,
                    !.result = should_send_weekly_summary(policy.last, policy.now,
                                                          policy.now)]
    /\ UNCHANGED <<workerVars, adminVars, webVars, hookVars>>

eval_reminder ==
    /\ policy.kind = "reminder" /\ ~policy.done
    /\ policy' = [policy EXCEPT
                    !.done = TRUE,
                    !.result = should_send_event_reminder(
                                   policy.event_day, policy.type, policy.hour,
                                   policy.minute, policy.last,
                                   policy.now + policy.tz, policy.now)]
    /\ UNCHANGED <<workerVars, adminVars, webVars, hookVars>>

PolicyInit ==
    /\ policy \in CadenceInputs("poll") \cup CadenceInputs("summary") \cup ReminderInputs
    /\ workers = NoWorkers
    /\ WorkerIdle
    /\ WebIdle
    /\ inflight = << >>

PolicyNext == eval_poll \/ eval_summary \/ eval_reminder

PolicySpec == PolicyInit /\ [][PolicyNext]_vars

(***************************************************************************)
(* Webhook handlers (views.py)                                             *)
(***************************************************************************)
\* datetime.fromtimestamp(unix_ts, tz=utc).date(), as days since 1970-01-01
utc_date(unix_ts) == unix_ts \div 86400

is_group_chat(chat) == ChatType[chat] \in {"group", "supergroup"}

group_person_upsert_any_group(rows, group, person, left, last_message_at) ==
    {[r EXCEPT !.left = left] : r \in {q \in rows : q.person = person /\ q.group # group}}
        \cup {r \in rows : r.person # person}
        \cup {[group |-> group, person |-> person, left |-> left,
               last_message_at |-> last_message_at]}

\* GroupPerson.objects.update_or_create(group, person, defaults=...)
group_person_upsert(rows, group, person, left, last_message_at) ==
    {r \in rows : ~(r.group = group /\ r.person = person)}
        \cup {[group |-> group, person |-> person, left |-> left,
               last_message_at |-> last_message_at]}

ActivityKey(r, person, group, date) ==
    r.person = person /\ r.group = group /\ r.date = date

activity_day_not_incremented(rows, person, group, date) ==
    IF \E r \in rows : ActivityKey(r, person, group, date)
    THEN rows
    ELSE rows \cup {[pk |-> Cardinality(rows) + 1, person |-> person,
                     group |-> group, date |-> date, message_count |-> 1]}

\* ActivityDay.objects.get_or_create(...) and, when the row existed, the
\* update message_count = F("message_count") + 1 of the row found
activity_day_after(rows, person, group, date) ==
    IF \E r \in rows : ActivityKey(r, person, group, date)
    THEN LET activity == CHOOSE r \in rows : ActivityKey(r, person, group, date)
         IN  {IF r.pk = activity.pk
              THEN [r EXCEPT !.message_count = r.message_count + 1]
              ELSE r : r \in rows}
    ELSE rows \cup {[pk |-> Cardinality(rows) + 1, person |-> person,
                     group |-> group, date |-> date, message_count |-> 1]}

Times(e) == IF \E d \in delivered : d.e = e
            THEN (CHOOSE d \in delivered : d.e = e).n
            ELSE 0

\* telegram_webhook with a "message" key whose chat is not private
handle_message(e) ==
    /\ updates < MaxDeliveries
    /\ updates' = updates + 1
    /\ delivered' = {d \in delivered : d.e # e} \cup {[e |-> e, n |-> Times(e) + 1]}
    /\ IF ~is_group_chat(e.chat)
       THEN UNCHANGED <<Person, Group, GroupPerson, ActivityDay>>
       ELSE /\ Group' = Group \cup {e.chat}
            /\ IF e.text # ""
               THEN /\ Person' = Person \cup {e.from}
                    /\ GroupPerson' = group_person_upsert(GroupPerson, e.chat, e.from,
                                                          FALSE, e.date)
                    /\ ActivityDay' = activity_day_after(ActivityDay, e.from, e.chat,
                                                         utc_date(e.date))
               ELSE UNCHANGED <<Person, GroupPerson, ActivityDay>>
    /\ UNCHANGED <<Poll, PollAnswer, next_pk, lastAnswer, workerVars, adminVars, policy, hookVars>>

PollKnown(poll_id) == \E r \in Poll : r.telegram_id = poll_id

poll_rows_recreated(rows, poll_id, question, voter_counts, now) ==
    LET yes_count == IF Len(voter_counts) >= 2 THEN voter_counts[1] ELSE 0
        no_count == IF Len(voter_counts) >= 2 THEN voter_counts[2] ELSE 0
    IN  {r \in rows : r.telegram_id # poll_id}
            \cup {[telegram_id |-> poll_id, created |-> now, node |-> "",
                   question |-> question,
                   yes_count |-> yes_count, no_count |-> no_count]}

\* the counts read from the options and Poll.objects.update_or_create(
\* telegram_id, defaults) of _handle_poll_data called without a group, at the
\* instant now (created is auto_now_add)
poll_rows_after(rows, poll_id, question, voter_counts, now) ==
    LET yes_count == IF Len(voter_counts) >= 2 THEN voter_counts[1] ELSE 0
        no_count == IF Len(voter_counts) >= 2 THEN voter_counts[2] ELSE 0
    IN  IF \E r \in rows : r.telegram_id = poll_id
        THEN {IF r.telegram_id = poll_id
              THEN [r EXCEPT !.question = question,
                             !.yes_count = yes_count, !.no_count = no_count]
              ELSE r : r \in rows}
        ELSE rows \cup {[telegram_id |-> poll_id, created |-> now, node |-> "",
                         question |-> question,
                         yes_count |-> yes_count, no_count |-> no_count]}

\* telegram_webhook with a "poll" key: _handle_poll_data(poll_data), no group
handle_poll_data(poll_id, question, voter_counts, now) ==
    /\ updates < MaxPollUpdates
    /\ updates' = updates + 1
    /\ Poll' = poll_rows_after(Poll, poll_id, question, voter_counts, now)
    /\ UNCHANGED <<Person, Group, GroupPerson, ActivityDay, PollAnswer, next_pk,
                   delivered, lastAnswer, workerVars, adminVars, policy, hookVars>>

AnswerKey(r, poll_id, person) == r.poll = poll_id /\ r.person = person

poll_answers_retraction_ignored(rows, poll_id, person, option_ids, pk) ==
    IF option_ids = << >>
    THEN rows
    ELSE IF \E r \in rows : AnswerKey(r, poll_id, person)
         THEN {IF AnswerKey(r, poll_id, person)
               THEN [r EXCEPT !.yes = (option_ids[1] = 0)]
               ELSE r : r \in rows}
         ELSE rows \cup {[pk |-> pk, poll |-> poll_id, person |-> person,
                          yes |-> (option_ids[1] = 0)]}

\* the retraction delete and PollAnswer.objects.update_or_create(poll, person,
\* defaults=dict(yes=yes))
poll_answers_after(rows, poll_id, person, option_ids, pk) ==
    IF option_ids = << >>
    THEN {r \in rows : ~AnswerKey(r, poll_id, person)}
    ELSE IF \E r \in rows : AnswerKey(r, poll_id, person)
         THEN {IF AnswerKey(r, poll_id, person)
               THEN [r EXCEPT !.yes = (option_ids[1] = 0)]
               ELSE r : r \in rows}
         ELSE rows \cup {[pk |-> pk, poll |-> poll_id, person |-> person,
                          yes |-> (option_ids[1] = 0)]}

\* telegram_webhook with a "poll_answer" key
handle_poll_answer(poll_id, user, option_ids) ==
    /\ updates < MaxPollUpdates
    /\ updates' = updates + 1
    /\ IF user = NoUser \/ ~PollKnown(poll_id)
       THEN UNCHANGED <<Person, PollAnswer, next_pk, lastAnswer>>
       ELSE /\ Person' = Person \cup {user}
            /\ PollAnswer' = poll_answers_after(PollAnswer, poll_id, user,
                                                option_ids, next_pk)
            /\ next_pk' = IF \E r \in PollAnswer' : r.pk = next_pk
                          THEN next_pk + 1 ELSE next_pk
            /\ lastAnswer' = [lastAnswer EXCEPT
                                ![<<poll_id, user>>] =
                                    [seen |-> TRUE, option_ids |-> option_ids]]
    /\ UNCHANGED <<Group, GroupPerson, ActivityDay, Poll, delivered,
                   workerVars, adminVars, policy, hookVars>>

WebhookInit ==
    /\ WorkerIdle
    /\ policy = PolicyIdle
    /\ workers = NoWorkers
    /\ WebIdle
    /\ inflight = << >>

MessageNext == \E e \in Envelopes : handle_message(e)

MessageSpec == WebhookInit /\ [][MessageNext]_vars

\* the question of a poll update ("" when the key is absent) and the instants
\* the updates arrive at
Questions == {"", "Coming?"}

PollTimes == {At(1, 2, 9, 0, 0), At(2, 0, 8, 0, 0)}

PollNext ==
    \/ \E poll_id \in PollIds, question \in Questions, voter_counts \in VoterCounts,
          now \in PollTimes :
          handle_poll_data(poll_id, question, voter_counts, now)
    \/ \E poll_id \in PollIds, user \in PersonIds \cup {NoUser}, option_ids \in OptionIds :
          handle_poll_answer(poll_id, user, option_ids)

PollSpec == WebhookInit /\ [][PollNext]_vars

(***************************************************************************)
(* The webhook endpoint as a whole (views.py telegram_webhook).  A request *)
(* is handled from start to end on a record s of the tables, to which the  *)
(* handlers are applied in the order of the code.  s.sent lists the        *)
(* outbound Telegram calls, s.raised says that one of them raised, and     *)
(* s.ran lists the top-level keys whose handler was entered.               *)
(***************************************************************************)
MaxRequests == 2

\* telegram.py TELEGRAM_WEBHOOK_SECRET, as configured
TELEGRAM_WEBHOOK_SECRET == "s3cret"

\* X-Telegram-Bot-Api-Secret-Token; "" is the header left out
Headers == {TELEGRAM_WEBHOOK_SECRET, "wrong", ""}

\* request.body: a JSON object, a JSON number, text that is not JSON, or
\* bytes that are not text in any encoding json.loads detects
Bodies == {"object", "number", "malformed", "undecodable"}

\* the Group of node n1 is chat g1; the Groups of the other nodes are not
\* among the chats of the webhook inputs (group.node_set.exists())
group_has_node(chat) == chat = "g1"

Db ==
    [Person |-> Person, profile |-> profile, Group |-> Group,
     GroupPerson |-> GroupPerson, ActivityDay |-> ActivityDay, Poll |-> Poll,
     PollAnswer |-> PollAnswer, next_pk |-> next_pk,
     sent |-> << >>, raised |-> FALSE, ran |-> {}]

Tables(s) ==
    <<s.Person, s.profile, s.Group, s.GroupPerson, s.ActivityDay, s.Poll,
      s.PollAnswer, s.next_pk>>

\* telegram.py send / answer_callback_query: the call raises when the
\* request to Telegram fails
send_text(s, chat_id, kind, text, to, fail) ==
    [s EXCEPT !.sent = Append(@, [kind |-> kind, chat |-> chat_id, to |-> to,
                                  ok |-> ~fail, text |-> text]),
              !.raised = fail]

\* a message whose wording is not looked at
send(s, chat_id, kind, to, fail) == send_text(s, chat_id, kind, << >>, to, fail)

get_or_create_person(s, user) ==
    [s EXCEPT !.Person = @ \cup {user},
              !.profile[user].is_bot = (user \in BotIds)]

get_or_create_group(s, chat) ==
    IF is_group_chat(chat) THEN [s EXCEPT !.Group = @ \cup {chat}] ELSE s

onboard_new_member_once(s, user, chat, fail) ==
    IF s.profile[user].is_bot \/ s.profile[user].onboarded THEN s
    ELSE IF ~group_has_node(chat) THEN s
    ELSE LET t == send(s, chat, "welcome", user, fail)
         IN  IF t.raised THEN t
             ELSE [t EXCEPT !.profile[user].onboarded = TRUE]

onboard_new_member(s, user, chat, fail) ==
    IF s.profile[user].is_bot THEN s
    ELSE IF ~group_has_node(chat) THEN s
    ELSE LET t == send(s, chat, "welcome", user, fail)
         IN  IF t.raised THEN t
             ELSE [t EXCEPT !.profile[user].onboarded = TRUE]

MemberKey(r, group, person) == r.group = group /\ r.person = person

group_person_deleted_on_leave(rows, group, person, left) ==
    IF left
    THEN {r \in rows : ~MemberKey(r, group, person)}
    ELSE IF \E r \in rows : MemberKey(r, group, person)
         THEN {IF MemberKey(r, group, person) THEN [r EXCEPT !.left = left] ELSE r
               : r \in rows}
         ELSE rows \cup {[group |-> group, person |-> person, left |-> left,
                          last_message_at |-> None]}

\* GroupPerson.objects.update_or_create(group, person, defaults=dict(left=left))
group_person_set_left(rows, group, person, left) ==
    IF \E r \in rows : MemberKey(r, group, person)
    THEN {IF MemberKey(r, group, person) THEN [r EXCEPT !.left = left] ELSE r
          : r \in rows}
    ELSE rows \cup {[group |-> group, person |-> person, left |-> left,
                     last_message_at |-> None]}

RECURSIVE new_members_joined(_, _, _)
\* the loop over new_chat_members of _handle_message
new_members_joined(s, members, chat) ==
    IF members = << >> THEN s
    ELSE LET t == get_or_create_person(s, Head(members))
         IN  new_members_joined(
                 [t EXCEPT !.GroupPerson =
                     group_person_set_left(@, chat, Head(members), FALSE)],
                 Tail(members), chat)

\* _handle_message, for messages without poll or photo
handle_message_data(s, m) ==
    IF ~is_group_chat(m.chat) THEN s
    ELSE LET s1 == get_or_create_group(s, m.chat)
             s2 == new_members_joined(s1, m.new_chat_members, m.chat)
             s3 == IF m.left_chat_member = NoUser THEN s2
                   ELSE LET t == get_or_create_person(s2, m.left_chat_member)
                        IN  [t EXCEPT !.GroupPerson =
                               group_person_set_left(@, m.chat, m.left_chat_member, TRUE)]
         IN  IF m.text = << >> \/ m.from = NoUser THEN s3
             ELSE LET t == get_or_create_person(s3, m.from)
                  IN  [t EXCEPT
                         !.GroupPerson = group_person_upsert(@, m.chat, m.from, FALSE, m.date),
                         !.ActivityDay = activity_day_after(@, m.from, m.chat,
                                                            utc_date(m.date))]

(***************************************************************************)
(* Python's str operations on a text, as the command handlers use them     *)
(***************************************************************************)
\* characters str.split() and str.strip() treat as whitespace
Whitespace == {" ", "\t", "\n"}

UpperCase ==
    <<"A", "B", "C", "D", "E", "F", "G", "H", "I", "J", "K", "L", "M",
      "N", "O", "P", "Q", "R", "S", "T", "U", "V", "W", "X", "Y", "Z">>

LowerCase ==
    <<"a", "b", "c", "d", "e", "f", "g", "h", "i", "j", "k", "l", "m",
      "n", "o", "p", "q", "r", "s", "t", "u", "v", "w", "x", "y", "z">>

Digits == {"0", "1", "2", "3", "4", "5", "6", "7", "8", "9"}

\* the class [a-zA-Z0-9_], which is also \w on these characters
WordChars == Range(UpperCase) \cup Range(LowerCase) \cup Digits \cup {"_"}

startswith(t, prefix) ==
    Len(t) >= Len(prefix) /\ SubSeq(t, 1, Len(prefix)) = prefix

contains(t, c) == \E i \in DOMAIN t : t[i] = c

RECURSIVE lstrip(_)
lstrip(t) ==
    IF t # << >> /\ Head(t) \in Whitespace THEN lstrip(Tail(t)) ELSE t

RECURSIVE rstrip(_)
rstrip(t) ==
    IF t # << >> /\ t[Len(t)] \in Whitespace
    THEN rstrip(SubSeq(t, 1, Len(t) - 1)) ELSE t

strip(t) == rstrip(lstrip(t))

lower(t) ==
    [i \in DOMAIN t |->
        IF \E k \in DOMAIN UpperCase : UpperCase[k] = t[i]
        THEN LowerCase[CHOOSE k \in DOMAIN UpperCase : UpperCase[k] = t[i]]
        ELSE t[i]]

\* length of the first word of a text that does not start with whitespace
word_end(t) ==
    IF \E i \in DOMAIN t : t[i] \in Whitespace
    THEN (CHOOSE i \in DOMAIN t :
             /\ t[i] \in Whitespace
             /\ \A j \in 1..(i - 1) : t[j] \notin Whitespace) - 1
    ELSE Len(t)

\* text.split(maxsplit=1): the first word and, when there is one, the rest
\* without its leading whitespace
split_maxsplit_1(t) ==
    LET u == lstrip(t)
        k == word_end(u)
        rest == lstrip(SubSeq(u, k + 1, Len(u)))
    IN  IF u = << >> THEN << >>
        ELSE IF rest = << >> THEN <<SubSeq(u, 1, k)>>
        ELSE <<SubSeq(u, 1, k), rest>>

\* text.split(): the words
RECURSIVE split(_)
split(t) ==
    LET u == lstrip(t)
        k == word_end(u)
    IN  IF u = << >> THEN << >>
        ELSE <<SubSeq(u, 1, k)>> \o split(SubSeq(u, k + 1, Len(u)))

\* re.match(r"^[a-zA-Z0-9_]+$", username): $ also matches before a final
\* line break
re_match_handle(username) ==
    LET body == IF username # << >> /\ username[Len(username)] = "\n"
                THEN SubSeq(username, 1, Len(username) - 1) ELSE username
    IN  /\ body # << >>
        /\ \A i \in DOMAIN body : body[i] \in WordChars

\* re.search(r"/\w+", bio_text)
re_search_command(bio_text) ==
    \E i \in 1..(Len(bio_text) - 1) : bio_text[i] = "/" /\ bio_text[i + 1] \in WordChars

\* html.unescape on the references &lt &gt &amp, with or without the final ;
CharRefs ==
    {[name |-> <<"&", "l", "t">>, char |-> "<"],
     [name |-> <<"&", "g", "t">>, char |-> ">"],
     [name |-> <<"&", "a", "m", "p">>, char |-> "&"]}

\* the reference starts at position i of the text
ref_at(t, i, name) ==
    /\ i + Len(name) - 1 <= Len(t)
    /\ \A k \in DOMAIN name : t[i + k - 1] = name[k]

RECURSIVE html_unescape(_)
html_unescape(t) ==
    IF \E i \in DOMAIN t, r \in CharRefs : ref_at(t, i, r.name)
    THEN LET i == CHOOSE i \in DOMAIN t :
                     /\ \E r \in CharRefs : ref_at(t, i, r.name)
                     /\ \A j \in 1..(i - 1) : \A r \in CharRefs : ~ref_at(t, j, r.name)
             r == CHOOSE r \in CharRefs : ref_at(t, i, r.name)
             after == SubSeq(t, i + Len(r.name), Len(t))
         IN  SubSeq(t, 1, i - 1) \o <<r.char>>
                 \o html_unescape(IF startswith(after, <<";">>) THEN Tail(after) ELSE after)
    ELSE t

(***************************************************************************)
(* Direct messages                                                         *)
(***************************************************************************)
BIO_MAX_LENGTH == 140

\* person.save(): the row gets the columns of the object in memory
saved(s, person, row) == [s EXCEPT !.profile[person] = row]

is_member_whatever_left(s, person) ==
    \E r \in s.GroupPerson : r.person = person /\ group_has_node(r.group)

is_member_of_any_node(s, person) ==
    \E r \in s.GroupPerson : r.person = person /\ ~r.left /\ group_has_node(r.group)

\* _handle_x_command
handle_x_command(s, chat_id, person, text, fail) ==
    LET parts == split_maxsplit_1(text)
        stripped == strip(parts[2])
        username == IF startswith(stripped, <<"@">>) THEN Tail(stripped) ELSE stripped
    IN  IF Len(parts) < 2
        THEN send_text(s, chat_id, "reply", <<"x_usage">>, person, fail)
        ELSE IF username = << >>
        THEN send_text(s, chat_id, "reply", <<"x_invalid">>, person, fail)
        ELSE IF contains(username, "<") \/ contains(username, ">")
        THEN send_text(s, chat_id, "reply", <<"x_html">>, person, fail)
        ELSE IF ~re_match_handle(username)
        THEN send_text(s, chat_id, "reply", <<"x_invalid">>, person, fail)
        ELSE send_text(saved(s, person, [s.profile[person] EXCEPT !.username_x = username]),
                       chat_id, "reply", <<"x_set", username>>, person, fail)

privacy_argument_any(parts) == Len(parts) >= 2

\* the negation of: len(parts) < 2 or parts[1] not in ("on", "off")
privacy_argument_given(parts) ==
    Len(parts) >= 2 /\ parts[2] \in {<<"o", "n">>, <<"o", "f", "f">>}

\* _handle_privacy_command
handle_privacy_command(s, chat_id, person, text, fail) ==
    LET parts == split(lower(text))
        new_value == parts[2] = <<"o", "n">>
    IN  IF ~privacy_argument_given(parts)
        THEN send_text(s, chat_id, "reply",
                       <<"privacy_status", s.profile[person].privacy>>, person, fail)
        ELSE send_text(saved(s, person, [s.profile[person] EXCEPT !.privacy = new_value]),
                       chat_id, "reply", <<"privacy_set", new_value>>, person, fail)

bio_too_long_at_limit(bio_text) == Len(bio_text) >= BIO_MAX_LENGTH

\* len(bio_text) > BIO_MAX_LENGTH
bio_too_long(bio_text) == Len(bio_text) > BIO_MAX_LENGTH

\* _handle_bio_command
handle_bio_command(s, chat_id, person, text, fail) ==
    LET parts == split_maxsplit_1(text)
        bio_text == strip(parts[2])
    IN  IF Len(parts) < 2
        THEN send_text(s, chat_id, "reply",
                       <<"bio_current", s.profile[person].bio>>, person, fail)
        ELSE IF lower(bio_text) = <<"u", "n", "s", "e", "t">>
        THEN send_text(saved(s, person, [s.profile[person] EXCEPT !.bio = << >>]),
                       chat_id, "reply", <<"bio_cleared">>, person, fail)
        ELSE IF bio_too_long(bio_text)
        THEN send_text(s, chat_id, "reply",
                       <<"bio_too_long", Len(bio_text), BIO_MAX_LENGTH>>, person, fail)
        ELSE IF contains(bio_text, "<") \/ contains(bio_text, ">")
        THEN send_text(s, chat_id, "reply", <<"bio_html">>, person, fail)
        ELSE IF re_search_command(bio_text)
        THEN send_text(s, chat_id, "reply", <<"bio_command">>, person, fail)
        ELSE send_text(saved(s, person,
                             [s.profile[person] EXCEPT !.bio = html_unescape(bio_text)]),
                       chat_id, "reply", <<"bio_set", html_unescape(bio_text)>>,
                       person, fail)

\* _handle_dm and the command it routes to; every path ends in one send
handle_dm(s, m, fail) ==
    IF ChatType[m.chat] # "private" \/ m.from = NoUser THEN s
    ELSE LET s1 == get_or_create_person(s, m.from)
             text == strip(m.text)
         IN  IF ~is_member_of_any_node(s1, m.from)
             THEN send(s1, m.chat, "join_prompt", m.from, fail)
             ELSE IF \/ startswith(text, <<"/", "h", "e", "l", "p">>)
                     \/ startswith(text, <<"/", "s", "t", "a", "r", "t">>)
             THEN send_text(s1, m.chat, "reply", <<"help">>, m.from, fail)
             ELSE IF startswith(text, <<"/", "x", " ">>) \/ text = <<"/", "x">>
             THEN handle_x_command(s1, m.chat, m.from, text, fail)
             ELSE IF startswith(text, <<"/", "p", "r", "i", "v", "a", "c", "y">>)
             THEN handle_privacy_command(s1, m.chat, m.from, text, fail)
             ELSE IF startswith(text, <<"/", "b", "i", "o">>)
             THEN handle_bio_command(s1, m.chat, m.from, text, fail)
             ELSE IF startswith(text, <<"/", "p", "e", "o", "p", "l", "e">>)
             THEN send_text(s1, m.chat, "reply", <<"people">>, m.from, fail)
             ELSE send_text(s1, m.chat, "reply", <<"unknown">>, m.from, fail)

route_always_group(m) == "message"

\* the branch on chat type in telegram_webhook
route(m) == IF ChatType[m.chat] = "private" THEN "dm" ELSE "message"

\* _handle_poll_answer
handle_poll_answer_data(s, a) ==
    IF a.user = NoUser \/ ~(\E r \in s.Poll : r.telegram_id = a.poll_id) THEN s
    ELSE LET t == get_or_create_person(s, a.user)
             rows == poll_answers_after(t.PollAnswer, a.poll_id, a.user,
                                        a.option_ids, t.next_pk)
         IN  [t EXCEPT !.PollAnswer = rows,
                       !.next_pk = IF \E r \in rows : r.pk = t.next_pk
                                   THEN t.next_pk + 1 ELSE t.next_pk]

\* _handle_chat_member
handle_chat_member(s, c, fail) ==
    IF ~is_group_chat(c.chat) THEN s
    ELSE LET s1 == get_or_create_group(s, c.chat)
         IN  IF c.user = NoUser THEN s1
             ELSE LET left == c.status \in {"left", "kicked"}
                      t == get_or_create_person(s1, c.user)
                      s2 == [t EXCEPT !.GroupPerson =
                                group_person_set_left(@, c.chat, c.user, left)]
                  IN  IF left THEN s2
                      ELSE onboard_new_member(s2, c.user, c.chat, fail)

\* _handle_my_chat_member
handle_my_chat_member(s, c) == get_or_create_group(s, c.chat)

\* _handle_callback_query
handle_callback_query(s, q, fail) ==
    IF q.id = "" \/ q.chat = "" THEN s
    ELSE send(s, q.chat, "callback", NoUser, fail)

Has(data, key) == data[key] # Absent

Entered(s, key) == [s EXCEPT !.ran = @ \cup {key}]

message_of_edited(data) ==
    IF Has(data, "message") THEN data.message ELSE data.edited_message

\* data["message"], looked up when "message" in data
message_of(data) == data.message

\* 2024-01-01 00:00:00 UTC
MessageDate == 1704067200

\* timezone.now() while the requests are handled: the date of their messages
RequestTime == MessageDate

\* The "if key in data" blocks of telegram_webhook, one operator each; an
\* exception of a handler leaves the chain, so a block is skipped once the
\* tables record a raise.
on_message(s, m, fail) ==
    IF m = Absent THEN s
    ELSE IF route(m) = "dm"
         THEN handle_dm(Entered(s, "dm"), m, fail)
         ELSE handle_message_data(Entered(s, "message"), m)

on_poll(s, data) ==
    IF s.raised \/ ~Has(data, "poll") THEN s
    ELSE [Entered(s, "poll") EXCEPT
            !.Poll = poll_rows_after(@, data.poll.id, data.poll.question,
                                     data.poll.voter_counts, RequestTime)]

on_poll_answer(s, data) ==
    IF s.raised \/ ~Has(data, "poll_answer") THEN s
    ELSE handle_poll_answer_data(Entered(s, "poll_answer"), data.poll_answer)

on_chat_member(s, data, fail) ==
    IF s.raised \/ ~Has(data, "chat_member") THEN s
    ELSE handle_chat_member(Entered(s, "chat_member"), data.chat_member, fail)

on_my_chat_member(s, data) ==
    IF s.raised \/ ~Has(data, "my_chat_member") THEN s
    ELSE handle_my_chat_member(Entered(s, "my_chat_member"), data.my_chat_member)

on_callback_query(s, data, fail) ==
    IF s.raised \/ ~Has(data, "callback_query") THEN s
    ELSE handle_callback_query(Entered(s, "callback_query"),
                               data.callback_query, fail)

dispatch(s0, data, fail) ==
    on_callback_query(
      on_my_chat_member(
        on_chat_member(
          on_poll_answer(
            on_poll(on_message(s0, message_of(data), fail), data),
            data),
          data, fail),
        data),
      data, fail)

\* verify_webhook_secret: hmac.compare_digest(header_value, secret)
verify_webhook_secret(header) == header = TELEGRAM_WEBHOOK_SECRET

\* an exception that leaves the view is answered with 500 by Django
processed(s) == [status |-> IF s.raised THEN 500 ELSE 200, s |-> s]

\* The response status and the tables after telegram_webhook(request).
\* json.loads raises JSONDecodeError on text that is not JSON (caught: 400)
\* and UnicodeDecodeError on bytes it cannot decode (not caught: 500); the
\* "in" tests raise TypeError on a number (not caught: 500).
webhook_result(s0, req) ==
    IF ~verify_webhook_secret(req.header) THEN [status |-> 403, s |-> s0]
    ELSE IF req.body = "malformed" THEN [status |-> 400, s |-> s0]
    ELSE IF req.body \in {"undecodable", "number"} THEN [status |-> 500, s |-> s0]
    ELSE processed(dispatch(s0, req.data, req.fail))

(***************************************************************************)
(* Webhook requests                                                        *)
(***************************************************************************)
GroupMessages ==
    [message_id : {1}, chat : ChatIds \ PrivateChats, from : {101},
     date : {MessageDate}, text : {<< >>, XAlice},
     new_chat_members : {<< >>, <<102, 900>>}, left_chat_member : {NoUser, 102}]

DirectMessages ==
    [message_id : {1}, chat : PrivateChats, from : {101, NoUser},
     date : {MessageDate}, text : {Help, XAlice},
     new_chat_members : {<< >>, <<102, 900>>}, left_chat_member : {NoUser}]

ChatMembers ==
    [chat : {"g1", "g2"}, user : {101, 900}, status : {"member", "left", "kicked"}]
        \cup [chat : {"g1"}, user : {NoUser}, status : {"member"}]

PollAnswers == [poll_id : {"pl1"}, user : {101}, option_ids : {<<0>>, << >>}]

PollStates == [id : {"pl1"}, question : {"Coming?"}, voter_counts : {<<1, 0>>}]

MyChatMembers == [chat : {"g2"}]

CallbackQueries == [id : {"cb1"}, chat : {"p1", ""}]

Keys ==
    {"message", "poll", "poll_answer", "chat_member", "my_chat_member",
     "callback_query", "edited_message", "channel_post"}

\* the keys telegram_webhook looks for
RecognisedKeys == Keys \ {"edited_message", "channel_post"}

EmptyUpdate == [k \in Keys |-> Absent]

TextInGroup ==
    [message_id |-> 1, chat |-> "g1", from |-> 101, date |-> MessageDate,
     text |-> XAlice, new_chat_members |-> << >>, left_chat_member |-> NoUser]

JoinInGroup == [TextInGroup EXCEPT !.text = << >>, !.new_chat_members = <<102, 900>>]

CommandInPrivate == [TextInGroup EXCEPT !.chat = "p1"]

JoinUpdate == [chat |-> "g1", user |-> 101, status |-> "member"]

\* envelopes with one key
OneKey ==
    {[EmptyUpdate EXCEPT !.message = m] : m \in GroupMessages \cup DirectMessages}
    \cup {[EmptyUpdate EXCEPT !.poll = p] : p \in PollStates}
    \cup {[EmptyUpdate EXCEPT !.poll_answer = a] : a \in PollAnswers}
    \cup {[EmptyUpdate EXCEPT !.chat_member = c] : c \in ChatMembers}
    \cup {[EmptyUpdate EXCEPT !.my_chat_member = c] : c \in MyChatMembers}
    \cup {[EmptyUpdate EXCEPT !.callback_query = q] : q \in CallbackQueries}
    \cup {[EmptyUpdate EXCEPT !.edited_message = TextInGroup],
          [EmptyUpdate EXCEPT !.channel_post = [TextInGroup EXCEPT !.chat = "c1"]]}

\* envelopes in which a message comes with a second key, and one with all keys
SeveralKeys ==
    LET with == {[EmptyUpdate EXCEPT !.poll_answer = a] : a \in PollAnswers}
                \cup {[EmptyUpdate EXCEPT !.chat_member = JoinUpdate],
                      [EmptyUpdate EXCEPT !.chat_member =
                          [JoinUpdate EXCEPT !.status = "left"]],
                      [EmptyUpdate EXCEPT !.callback_query =
                          [id |-> "cb1", chat |-> "p1"]],
                      [EmptyUpdate EXCEPT !.edited_message = TextInGroup]}
    IN  {[u EXCEPT !.message = m] :
            u \in with, m \in {TextInGroup, JoinInGroup, CommandInPrivate}}
        \cup {[message |-> TextInGroup,
               poll |-> [id |-> "pl1", question |-> "Coming?", voter_counts |-> <<1, 0>>],
               poll_answer |-> [poll_id |-> "pl1", user |-> 101, option_ids |-> <<0>>],
               chat_member |-> JoinUpdate,
               my_chat_member |-> [chat |-> "g2"],
               callback_query |-> [id |-> "cb1", chat |-> "p1"],
               edited_message |-> TextInGroup,
               channel_post |-> [TextInGroup EXCEPT !.chat = "c1"]]}

Updates == {EmptyUpdate} \cup OneKey \cup SeveralKeys

\* a request: the secret header, the kind of body, the envelope when the body
\* is a JSON object, and whether the calls to Telegram made for it fail
Requests ==
    [header : {TELEGRAM_WEBHOOK_SECRET}, body : {"object"}, data : Updates,
     fail : BOOLEAN]
    \cup [header : Headers, body : Bodies \ {"object"}, data : {EmptyUpdate},
          fail : {FALSE}]
    \cup [header : Headers \ {TELEGRAM_WEBHOOK_SECRET}, body : {"object"},
          data : {[EmptyUpdate EXCEPT !.message = TextInGroup,
                                      !.chat_member = JoinUpdate]},
          fail : {FALSE}]

Welcomed(sent, p) ==
    Cardinality({i \in DOMAIN sent :
                    sent[i].kind = "welcome" /\ sent[i].to = p /\ sent[i].ok})

\* the tables and the response after telegram_webhook(req)
responded(req) ==
    \E res \in {webhook_result(Db, req)} :
        /\ Person' = res.s.Person
        /\ profile' = res.s.profile
        /\ Group' = res.s.Group
        /\ GroupPerson' = res.s.GroupPerson
        /\ ActivityDay' = res.s.ActivityDay
        /\ Poll' = res.s.Poll
        /\ PollAnswer' = res.s.PollAnswer
        /\ next_pk' = res.s.next_pk
        /\ welcomes' = [p \in UserIds |-> welcomes[p] + Welcomed(res.s.sent, p)]
        /\ lastRequest' = [req |-> req, status |-> res.status,
                           ran |-> res.s.ran, sent |-> res.s.sent,
                           repeat |-> (req = lastRequest.req)]

\* one webhook request, handled from start to end
telegram_webhook ==
    /\ updates < MaxRequests
    /\ updates' = updates + 1
    /\ \E req \in Requests : responded(req)
    /\ UNCHANGED <<delivered, lastAnswer, inflight, workerVars, adminVars, policy>>

\* poll updates with two options, with one, and without a question
PollUpdates ==
    {[id |-> "pl1", question |-> "Coming?", voter_counts |-> <<1, 0>>],
     [id |-> "pl1", question |-> "Who comes?", voter_counts |-> <<3, 2>>],
     [id |-> "pl2", question |-> "", voter_counts |-> <<4>>]}

\* requests that pass the checks of the endpoint and carry a group message, a
\* membership change, a poll update or a poll answer
MembershipRequests ==
    [header : {TELEGRAM_WEBHOOK_SECRET}, body : {"object"},
     data : {[EmptyUpdate EXCEPT !.message = m] : m \in GroupMessages}
            \cup {[EmptyUpdate EXCEPT !.chat_member = c] : c \in ChatMembers}
            \cup {[EmptyUpdate EXCEPT !.poll = p] : p \in PollUpdates}
            \cup {[EmptyUpdate EXCEPT !.poll_answer = a] : a \in PollAnswers}
            \cup {[EmptyUpdate EXCEPT !.message = TextInGroup,
                                      !.chat_member = [JoinUpdate EXCEPT !.status = "left"]]},
     fail : {FALSE}]

\* telegram_webhook for one of these requests
telegram_webhook_membership ==
    /\ updates < MaxRequests
    /\ updates' = updates + 1
    /\ \E req \in MembershipRequests : responded(req)
    /\ UNCHANGED <<delivered, lastAnswer, inflight, workerVars, adminVars, policy>>

\* Tables the requests start from: nothing stored yet; person 101 has written
\* in g1 and poll pl1 is known; the same and 101 was welcomed on joining g1.
MemberOfG1 ==
    /\ Person = {101}
    /\ Group = {"g1"}
    /\ GroupPerson = {[group |-> "g1", person |-> 101, left |-> FALSE,
                       last_message_at |-> MessageDate]}
    /\ ActivityDay = {[pk |-> 1, person |-> 101, group |-> "g1",
                       date |-> utc_date(MessageDate), message_count |-> 1]}
    /\ Poll = {[telegram_id |-> "pl1", created |-> RequestTime, node |-> "",
                question |-> "Coming?", yes_count |-> 0, no_count |-> 0]}
    /\ PollAnswer = {}
    /\ next_pk = 1
    /\ delivered = {[e |-> [message_id |-> 1, chat |-> "g1", from |-> 101,
                            date |-> MessageDate, text |-> "hi"], n |-> 1]}
    /\ lastAnswer = [k \in PollIds \X PersonIds |-> [seen |-> FALSE, option_ids |-> << >>]]
    /\ updates = 0
    /\ lastRequest = NoRequest

\* the Poll row send_poll stored for node n1, the day before the requests
SentPoll ==
    [telegram_id |-> "pl1", created |-> RequestTime - 86400, node |-> "n1",
     question |-> "Coming?", yes_count |-> 0, no_count |-> 0]

\* person 101 was welcomed on joining g1 and has left it without writing
\* there; the poll of n1 was sent
FormerMemberOfG1 ==
    /\ Person = {101}
    /\ Group = {"g1"}
    /\ GroupPerson = {[group |-> "g1", person |-> 101, left |-> TRUE,
                       last_message_at |-> None]}
    /\ ActivityDay = {}
    /\ Poll = {SentPoll}
    /\ PollAnswer = {}
    /\ next_pk = 1
    /\ delivered = {}
    /\ lastAnswer = [k \in PollIds \X PersonIds |-> [seen |-> FALSE, option_ids |-> << >>]]
    /\ updates = 0
    /\ profile = [p \in UserIds |->
                    IF p = 101 THEN [NewProfile EXCEPT !.onboarded = TRUE]
                    ELSE NewProfile]
    /\ welcomes = [p \in UserIds |-> IF p = 101 THEN 1 ELSE 0]
    /\ lastRequest = NoRequest

StartTables ==
    \/ WebIdle
    \/ /\ MemberOfG1
       /\ \E w \in BOOLEAN :
             /\ profile = [p \in UserIds |->
                             IF p = 101 THEN [NewProfile EXCEPT !.onboarded = w]
                             ELSE NewProfile]
             /\ welcomes = [p \in UserIds |-> IF p = 101 /\ w THEN 1 ELSE 0]

EndpointInit ==
    /\ WorkerIdle
    /\ policy = PolicyIdle
    /\ workers = NoWorkers
    /\ StartTables
    /\ inflight = << >>

MembershipInit ==
    /\ WorkerIdle
    /\ policy = PolicyIdle
    /\ workers = NoWorkers
    /\ WebIdle \/ FormerMemberOfG1
    /\ inflight = << >>

MembershipNext == telegram_webhook_membership

MembershipSpec == MembershipInit /\ [][MembershipNext]_vars

WebhookNext == telegram_webhook

WebhookSpec == EndpointInit /\ [][WebhookNext]_vars

(***************************************************************************)
(* Commands in direct messages: webhook requests whose envelope is one     *)
(* private message, with the command texts below.                          *)
(***************************************************************************)
MaxCommands == 2

Repeat(c, n) == [i \in 1..n |-> c]

Privacy(arg) == <<"/", "p", "r", "i", "v", "a", "c", "y">> \o arg

X(arg) == <<"/", "x">> \o arg

Bio(arg) == <<"/", "b", "i", "o">> \o arg

\* arguments of /bio of the maximum length and one character longer
BioAtLimit == Repeat("a", BIO_MAX_LENGTH)

BioOverLimit == Repeat("a", BIO_MAX_LENGTH + 1)

PrivacyTexts ==
    {Privacy(<< >>), Privacy(<<" ", "o", "n">>), Privacy(<<" ", "o", "f", "f">>),
     Privacy(<<" ", "O", "F", "F">>), Privacy(<<" ", "m", "a", "y", "b", "e">>)}

XTexts ==
    {X(<< >>), X(<<" ", "@">>), X(<<" ", "<", "b", ">">>), X(<<" ", "a", "-", "b">>),
     X(<<" ", "@">> \o Alice), X(<<" ", "b", "o", "b", "_", "1">>)}

BioTexts ==
    {Bio(<< >>), Bio(<<" ", "u", "n", "s", "e", "t">>), Bio(<<" ", "h", "i">>),
     Bio(<<" ", "<", "b", ">", "h", "i">>),
     Bio(<<" ", "s", "e", "e", " ", "/", "s", "t", "a", "r", "t">>),
     Bio(<<" ", "a", "&", "l", "t", ";", "b">>),
     Bio(<<" ">> \o BioAtLimit), Bio(<<" ">> \o BioOverLimit),
     Bio(<<" ", "<">> \o BioAtLimit)}

CommandTexts ==
    PrivacyTexts \cup XTexts \cup BioTexts
    \cup {Help, <<"/", "p", "e", "o", "p", "l", "e">>, <<"h", "e", "l", "l", "o">>, << >>}

CommandMessages ==
    [message_id : {1}, chat : PrivateChats, from : PersonIds,
     date : {MessageDate}, text : CommandTexts,
     new_chat_members : {<< >>}, left_chat_member : {NoUser}]

\* telegram_webhook for a request that carries one command
direct_message ==
    /\ updates < MaxCommands
    /\ updates' = updates + 1
    /\ \E m \in CommandMessages, fail \in BOOLEAN :
          responded([header |-> TELEGRAM_WEBHOOK_SECRET, body |-> "object",
                     data |-> [EmptyUpdate EXCEPT !.message = m], fail |-> fail])
    /\ UNCHANGED <<delivered, lastAnswer, inflight, workerVars, adminVars, policy>>

\* GroupPerson rows of person 101 the commands start from: none, a member of
\* g1 (which has a node), a former member of g1, a member of g2 (no node)
Memberships ==
    LET row(g, left) == [group |-> g, person |-> 101, left |-> left,
                         last_message_at |-> MessageDate]
    IN  {{}, {row("g1", FALSE)}, {row("g1", TRUE)}, {row("g2", FALSE)},
         {row("g1", TRUE), row("g2", FALSE)}, {row("g1", FALSE), row("g2", TRUE)}}

\* Person columns of 101 the commands start from
StartProfiles ==
    {NewProfile,
     [NewProfile EXCEPT !.onboarded = TRUE, !.privacy = FALSE,
                        !.username_x = Alice, !.bio = <<"h", "i">>]}

CommandInit ==
    /\ WorkerIdle
    /\ policy = PolicyIdle
    /\ workers = NoWorkers
    /\ inflight = << >>
    /\ Person = {101}
    /\ Group = {"g1", "g2"}
    /\ GroupPerson \in Memberships
    /\ ActivityDay = {}
    /\ Poll = {}
    /\ PollAnswer = {}
    /\ next_pk = 1
    /\ delivered = {}
    /\ lastAnswer = [k \in PollIds \X PersonIds |-> [seen |-> FALSE, option_ids |-> << >>]]
    /\ updates = 0
    /\ \E start \in StartProfiles :
          profile = [p \in UserIds |-> IF p = 101 THEN start ELSE NewProfile]
    /\ welcomes = [p \in UserIds |-> 0]
    /\ lastRequest = NoRequest

CommandNext == direct_message

CommandSpec == CommandInit /\ [][CommandNext]_vars

(***************************************************************************)
(* Webhook requests handled concurrently.  Each request in flight runs its *)
(* handler one datastore operation (or outbound call) at a time; the       *)
(* operations of different requests interleave.  The requests are a text   *)
(* message of person 101 in group g1 ("message"), the command "/x alice"   *)
(* of person 101 in a private chat ("dm") and a chat_member join of person *)
(* 101 in group g1 ("join").                                               *)
(***************************************************************************)
MaxInflight == 2

\* a text message in g1, the direct messages "/x alice" ("dm") and "/bio hi"
\* ("bio"), and a chat_member update of a join of g1
RequestKinds == {"message", "dm", "bio", "join"}

\* the request is a direct message with a command
IsCommand(kind) == kind \in {"dm", "bio"}

\* a request that has been received and has not run any operation yet
Received(kind) ==
    [kind |-> kind,
     pc |-> IF IsCommand(kind) THEN "person" ELSE "group",
     person |-> NewProfile,                          \* the Person object in memory
     activity |-> [pk |-> 0, message_count |-> 0],   \* the ActivityDay object in memory
     tried_create |-> FALSE]

Goto(i, pc1) == [inflight EXCEPT ![i].pc = pc1]

\* _get_or_create_group
group_update_or_create(i) ==
    /\ inflight[i].pc = "group"
    /\ Group' = Group \cup {"g1"}
    /\ inflight' = Goto(i, "person")
    /\ UNCHANGED <<Person, GroupPerson, ActivityDay, Poll, PollAnswer, next_pk,
                   delivered, lastAnswer, updates, profile, welcomes, lastRequest,
                   workerVars, adminVars, policy>>

\* _get_or_create_person: the row is written and returned with all its columns
person_update_or_create(i) ==
    /\ inflight[i].pc = "person"
    /\ Person' = Person \cup {101}
    /\ profile' = [profile EXCEPT ![101].is_bot = FALSE]
    /\ inflight' = [inflight EXCEPT
                      ![i].person = profile'[101],
                      ![i].pc = IF IsCommand(inflight[i].kind)
                                THEN "member_query" ELSE "membership"]
    /\ UNCHANGED <<Group, GroupPerson, ActivityDay, Poll, PollAnswer, next_pk,
                   delivered, lastAnswer, updates, welcomes, lastRequest,
                   workerVars, adminVars, policy>>

\* GroupPerson.objects.update_or_create of the text path and of _handle_chat_member
group_person_update_or_create(i) ==
    /\ inflight[i].pc = "membership"
    /\ GroupPerson' =
          IF inflight[i].kind = "message"
          THEN group_person_upsert(GroupPerson, "g1", 101, FALSE, MessageDate)
          ELSE group_person_set_left(GroupPerson, "g1", 101, FALSE)
    /\ inflight' = Goto(i, IF inflight[i].kind = "message"
                           THEN "activity_get" ELSE "welcome")
    /\ UNCHANGED <<Person, Group, ActivityDay, Poll, PollAnswer, next_pk,
                   delivered, lastAnswer, updates, profile, welcomes, lastRequest,
                   workerVars, adminVars, policy>>

TodaysRow(r) == ActivityKey(r, 101, "g1", utc_date(MessageDate))

\* the SELECT of ActivityDay.objects.get_or_create
activity_get(i) ==
    /\ inflight[i].pc = "activity_get"
    /\ inflight' =
          IF \E r \in ActivityDay : TodaysRow(r)
          THEN LET row == CHOOSE r \in ActivityDay : TodaysRow(r)
               IN  [inflight EXCEPT
                      ![i].activity = [pk |-> row.pk, message_count |-> row.message_count],
                      ![i].pc = "activity_update"]
          ELSE Goto(i, "activity_create")
    /\ UNCHANGED <<Person, Group, GroupPerson, ActivityDay, Poll, PollAnswer, next_pk,
                   delivered, lastAnswer, updates, profile, welcomes, lastRequest,
                   workerVars, adminVars, policy>>

\* the INSERT of get_or_create; unique_together (person, group, date) makes it
\* fail when the row was created meanwhile, and get_or_create then reads the
\* row and returns created = False
activity_create(i) ==
    /\ inflight[i].pc = "activity_create"
    /\ IF \E r \in ActivityDay : TodaysRow(r)
       THEN LET row == CHOOSE r \in ActivityDay : TodaysRow(r)
            IN  /\ inflight' = [inflight EXCEPT
                      ![i].activity = [pk |-> row.pk, message_count |-> row.message_count],
                      ![i].tried_create = TRUE,
                      ![i].pc = "activity_update"]
                /\ UNCHANGED ActivityDay
       ELSE /\ ActivityDay' = ActivityDay \cup
                  {[pk |-> Cardinality(ActivityDay) + 1, person |-> 101, group |-> "g1",
                    date |-> utc_date(MessageDate), message_count |-> 1]}
            /\ inflight' = [inflight EXCEPT ![i].tried_create = TRUE, ![i].pc = "done"]
    /\ UNCHANGED <<Person, Group, GroupPerson, Poll, PollAnswer, next_pk,
                   delivered, lastAnswer, updates, profile, welcomes, lastRequest,
                   workerVars, adminVars, policy>>

message_count_from_memory(rows, activity) ==
    {IF r.pk = activity.pk
     THEN [r EXCEPT !.message_count = activity.message_count + 1]
     ELSE r : r \in rows}

\* ActivityDay.objects.filter(pk=activity.pk).update(
\*     message_count=F("message_count") + 1)
message_count_incremented(rows, activity) ==
    {IF r.pk = activity.pk
     THEN [r EXCEPT !.message_count = r.message_count + 1]
     ELSE r : r \in rows}

activity_update(i) ==
    /\ inflight[i].pc = "activity_update"
    /\ ActivityDay' = message_count_incremented(ActivityDay, inflight[i].activity)
    /\ inflight' = Goto(i, "done")
    /\ UNCHANGED <<Person, Group, GroupPerson, Poll, PollAnswer, next_pk,
                   delivered, lastAnswer, updates, profile, welcomes, lastRequest,
                   workerVars, adminVars, policy>>

\* is_member_of_any_node of _handle_dm
member_query(i) ==
    /\ inflight[i].pc = "member_query"
    /\ inflight' = Goto(i, IF is_member_of_any_node(Db, 101) THEN "save" ELSE "send")
    /\ UNCHANGED <<Person, Group, GroupPerson, ActivityDay, Poll, PollAnswer, next_pk,
                   delivered, lastAnswer, updates, profile, welcomes, lastRequest,
                   workerVars, adminVars, policy>>

\* person.save() of _handle_x_command, of _handle_bio_command and of
\* _onboard_new_member: every column is written from the object in memory
person_save(i) ==
    /\ inflight[i].pc = "save"
    /\ profile' = [profile EXCEPT
                     ![101] = IF inflight[i].kind = "dm"
                              THEN [inflight[i].person EXCEPT !.username_x = Alice]
                              ELSE IF inflight[i].kind = "bio"
                              THEN [inflight[i].person EXCEPT !.bio = <<"h", "i">>]
                              ELSE [inflight[i].person EXCEPT !.onboarded = TRUE]]
    /\ inflight' = Goto(i, IF IsCommand(inflight[i].kind) THEN "send" ELSE "done")
    /\ UNCHANGED <<Person, Group, GroupPerson, ActivityDay, Poll, PollAnswer, next_pk,
                   delivered, lastAnswer, updates, welcomes, lastRequest,
                   workerVars, adminVars, policy>>

\* send(...): the reply of _handle_dm, or the welcome of _onboard_new_member;
\* an exception ends the request
outbound_send(i) ==
    /\ inflight[i].pc \in {"send", "welcome"}
    /\ \E fail \in BOOLEAN :
          /\ inflight' = Goto(i, IF fail THEN "failed"
                                 ELSE IF inflight[i].pc = "welcome" THEN "save"
                                 ELSE "done")
          /\ welcomes' = IF ~fail /\ inflight[i].pc = "welcome"
                         THEN [welcomes EXCEPT ![101] = @ + 1]
                         ELSE welcomes
    /\ UNCHANGED <<Person, Group, GroupPerson, ActivityDay, Poll, PollAnswer, next_pk,
                   delivered, lastAnswer, updates, profile, lastRequest,
                   workerVars, adminVars, policy>>

RaceInit ==
    /\ WorkerIdle
    /\ policy = PolicyIdle
    /\ workers = NoWorkers
    /\ StartTables
    /\ inflight \in [1..MaxInflight -> {Received(kind) : kind \in RequestKinds}]

RaceNext ==
    \/ \E i \in DOMAIN inflight : group_update_or_create(i)
    \/ \E i \in DOMAIN inflight : person_update_or_create(i)
    \/ \E i \in DOMAIN inflight : group_person_update_or_create(i)
    \/ \E i \in DOMAIN inflight : activity_get(i)
    \/ \E i \in DOMAIN inflight : activity_create(i)
    \/ \E i \in DOMAIN inflight : activity_update(i)
    \/ \E i \in DOMAIN inflight : member_query(i)
    \/ \E i \in DOMAIN inflight : person_save(i)
    \/ \E i \in DOMAIN inflight : outbound_send(i)

RaceSpec == RaceInit /\ [][RaceNext]_vars

(***************************************************************************)
(* Properties of the webhook handlers                                      *)
(***************************************************************************)
Counted(e) == is_group_chat(e.chat) /\ e.text # ""

DeliveredFor(person, group, date) ==
    {d.e : d \in {x \in delivered : /\ Counted(x.e)
                                    /\ x.e.from = person /\ x.e.chat = group
                                    /\ utc_date(x.e.date) = date}}

ActivityRows(person, group, date) ==
    {r \in ActivityDay : ActivityKey(r, person, group, date)}

\* an envelope is identified by its (message id, chat): no two different
\* delivered envelopes share the pair
DistinctIds ==
    \A d1, d2 \in delivered :
        (d1.e.message_id = d2.e.message_id /\ d1.e.chat = d2.e.chat) => d1 = d2

ActivityKeys == PersonIds \X ChatIds \X {utc_date(d) : d \in UnixDates}

\* C1: a group text message counts once for its sender, however often its
\* envelope is delivered: the ActivityDay.message_count of a (person, group,
\* date) is the number of different envelopes delivered for it.
C1_DuplicateCountedOnce ==
    DistinctIds =>
        \A k \in ActivityKeys :
            \A r \in ActivityRows(k[1], k[2], k[3]) :
                r.message_count = Cardinality(DeliveredFor(k[1], k[2], k[3]))

\* C10: when every delivered text message has its own message id and was
\* delivered once, each (person, group, date) with k > 0 such messages has
\* exactly one ActivityDay row, whose message_count is k, and one with none
\* has no row.
C10_OneRowCountsDistinctMessages ==
    (DistinctIds /\ \A d \in delivered : d.n = 1) =>
        \A k \in ActivityKeys :
            LET n == Cardinality(DeliveredFor(k[1], k[2], k[3]))
                rows == ActivityRows(k[1], k[2], k[3])
            IN  /\ Cardinality(rows) = (IF n > 0 THEN 1 ELSE 0)
                /\ \A r \in rows : r.message_count = n

C10_Witness ==
    /\ DistinctIds
    /\ \A d \in delivered : d.n = 1
    /\ \E k \in ActivityKeys :
          /\ Cardinality(DeliveredFor(k[1], k[2], k[3])) = 2
          /\ \E e1, e2 \in DeliveredFor(k[1], k[2], k[3]) : e1.date # e2.date
          /\ \E r \in ActivityDay :
                ActivityKey(r, k[1], k[2], k[3]) /\ r.message_count = 2

AnswerRows(poll_id, person) == {r \in PollAnswer : AnswerKey(r, poll_id, person)}

\* C9: each (poll, person) pair has at most one PollAnswer row and it reflects
\* the pair's last poll_answer event for the known poll: no row if there was
\* no event or the last one carried an empty option list, otherwise one row
\* whose yes flag is true exactly when the first option id is 0.
C9_AnswerReflectsLastEvent ==
    \A k \in PollIds \X PersonIds :
        LET rows == AnswerRows(k[1], k[2])
            last == lastAnswer[k]
        IN  /\ Cardinality(rows) <= 1
            /\ (~last.seen \/ last.option_ids = << >>) => rows = {}
            /\ (last.seen /\ last.option_ids # << >>) =>
                  /\ Cardinality(rows) = 1
                  /\ \A r \in rows : r.yes <=> (last.option_ids[1] = 0)

C9_Witness ==
    \E k \in PollIds \X PersonIds :
        /\ lastAnswer[k].seen
        /\ lastAnswer[k].option_ids = << >>
        /\ AnswerRows(k[1], k[2]) = {}
        /\ next_pk > 1
        /\ \A r \in PollAnswer : r.pk # 1

(***************************************************************************)
(* Properties of the time-window predicates                                *)
(***************************************************************************)
\* C6: should_send_poll is true exactly when now lies in the minute Monday
\* 07:00 UTC and the marker is unset or at least 6 whole days (518400 s)
\* before now; should_send_weekly_summary likewise for Friday 07:00 UTC.
C6_CadenceExactness ==
    /\ (policy.done /\ policy.kind = "poll") =>
          (policy.result <=>
              /\ policy.now % 604800 \in 25200..25259
              /\ policy.last = None \/ policy.now - policy.last >= 518400)
    /\ (policy.done /\ policy.kind = "summary") =>
          (policy.result <=>
              /\ policy.now % 604800 \in 370800..370859
              /\ policy.last = None \/ policy.now - policy.last >= 518400)

C6_Witness ==
    /\ policy.done /\ policy.kind = "poll"
    /\ policy.now = At(2, 0, 7, 0, 0)
    /\ policy.last = policy.now - 604800
    /\ policy.result

LastAttempt == sendLog'[Len(sendLog')]

SameEntity(a, b) == a.kind = b.kind /\ a.ent = b.ent

Marker(kind, ent) ==
    IF kind = "poll" THEN last_poll_sent_at[ent]
    ELSE IF kind = "reminder" THEN last_reminder_sent_at[ent]
    ELSE last_weekly_summary_sent_at

\* C2: a marker (Node.last_poll_sent_at, Event.last_reminder_sent_at,
\* Group.last_weekly_summary_sent_at) changes only in a step whose send
\* returned without error, and becomes the time read after that send; a step
\* whose send raised leaves every marker as it was and reports the exception.
C2_MarkerOnlyAfterSuccessfulSend ==
    [][/\ \A n \in Range(NodeIds) :
             last_poll_sent_at'[n] # last_poll_sent_at[n] =>
                 /\ Len(sendLog') = Len(sendLog) + 1
                 /\ LastAttempt.kind = "poll" /\ LastAttempt.ent = n
                 /\ LastAttempt.res = "ok"
                 /\ last_poll_sent_at'[n] = LastAttempt.done
       /\ \A e \in Range(EventIds) :
             last_reminder_sent_at'[e] # last_reminder_sent_at[e] =>
                 /\ Len(sendLog') = Len(sendLog) + 1
                 /\ LastAttempt.kind = "reminder" /\ LastAttempt.ent = e
                 /\ LastAttempt.res = "ok"
                 /\ last_reminder_sent_at'[e] = LastAttempt.done
       /\ last_weekly_summary_sent_at' # last_weekly_summary_sent_at =>
                 /\ Len(sendLog') = Len(sendLog) + 1
                 /\ LastAttempt.kind = "summary"
                 /\ LastAttempt.res = "ok"
                 /\ last_weekly_summary_sent_at' = LastAttempt.done
       /\ (Len(sendLog') = Len(sendLog) + 1 /\ Raised(LastAttempt.res)) =>
                 /\ last_poll_sent_at' = last_poll_sent_at
                 /\ last_reminder_sent_at' = last_reminder_sent_at
                 /\ last_weekly_summary_sent_at' = last_weekly_summary_sent_at
                 /\ reported' = reported + 1
      ]_vars

C2_Witness ==
    /\ reported >= 1
    /\ \E i \in DOMAIN sendLog :
          /\ Raised(sendLog[i].res)
          /\ sendLog[i].before = None
          /\ Marker(sendLog[i].kind, sendLog[i].ent) = None
    /\ \E i \in DOMAIN sendLog :
          /\ sendLog[i].res = "ok"
          /\ Marker(sendLog[i].kind, sendLog[i].ent) = sendLog[i].done

\* C3: once an entity's action was sent and its marker written, no later
\* attempt is made for that entity in the same target minute; the next one is
\* at least COOLDOWN_DAYS whole days after the marker write.
C3_NoSecondSendAfterMarker ==
    \A i, j \in DOMAIN sendLog :
        (i < j /\ SameEntity(sendLog[i], sendLog[j]) /\ sendLog[i].res = "ok") =>
            /\ MinuteIndex(sendLog[j].at) # MinuteIndex(sendLog[i].at)
            /\ sendLog[j].at - sendLog[i].done >= COOLDOWN_DAYS * 86400

C3_Witness ==
    \E i \in DOMAIN sendLog : \E k \in DOMAIN decisions :
        /\ sendLog[i].res = "ok"
        /\ sendLog[i].tick < tick
        /\ decisions[k].kind = sendLog[i].kind
        /\ decisions[k].ent = sendLog[i].ent
        /\ decisions[k].last = sendLog[i].done
        /\ MinuteIndex(decisions[k].at) = MinuteIndex(sendLog[i].at)
        /\ ~decisions[k].due

\* C4: one node's failing send never ends the tick.  When the tick reaches
\* its sleep every eligible node has been evaluated for its poll, every node
\* found due has had its send attempted in this tick, a node whose send
\* returned has its marker written, a node whose send raised keeps its marker,
\* and every raised send has been reported.
C4_FailureIsolation ==
    pc.at = "sleep" =>
        /\ \A k \in DOMAIN EligibleNodes :
              \E d \in DOMAIN decisions :
                 /\ decisions[d].kind = "poll"
                 /\ decisions[d].ent = EligibleNodes[k]
                 /\ decisions[d].due =>
                      \E i \in DOMAIN sendLog :
                         /\ sendLog[i].tick = tick
                         /\ sendLog[i].kind = "poll"
                         /\ sendLog[i].ent = EligibleNodes[k]
                         /\ sendLog[i].res = "ok" =>
                              last_poll_sent_at[EligibleNodes[k]] = sendLog[i].done
                         /\ Raised(sendLog[i].res) =>
                              last_poll_sent_at[EligibleNodes[k]] = sendLog[i].before
        /\ reported = Cardinality({i \in DOMAIN sendLog : Raised(sendLog[i].res)})

C4_Witness ==
    /\ pc.at = "sleep"
    /\ reported >= 1
    /\ \E i, j \in DOMAIN sendLog :
          /\ i < j
          /\ sendLog[i].tick = tick /\ sendLog[j].tick = tick
          /\ sendLog[i].kind = "poll" /\ sendLog[j].kind = "poll"
          /\ sendLog[i].ent = "n1" /\ sendLog[j].ent = "n2"
          /\ Raised(sendLog[i].res) /\ sendLog[i].before = None
          /\ last_poll_sent_at["n1"] = None
          /\ sendLog[j].res = "ok"
          /\ last_poll_sent_at["n2"] = sendLog[j].done

\* C5 as stated: after a failed send attempt for an entity the next attempt
\* for that entity is not before the following week's target minute.
C5_NoRetryBeforeNextWeek ==
    \A i, j \in DOMAIN sendLog :
        (i < j /\ SameEntity(sendLog[i], sendLog[j]) /\ Raised(sendLog[i].res)) =>
            sendLog[j].at - sendLog[i].at >= 604800 - 60

\* C5 amended: after a failed send attempt for an entity, a further attempt
\* for that entity is made only when a later cadence check for it still reads
\* a time inside the same target minute, or else not before the following
\* week's target minute.
C5_RetryOnlyInSameMinute ==
    \A i, j \in DOMAIN sendLog :
        (i < j /\ SameEntity(sendLog[i], sendLog[j]) /\ Raised(sendLog[i].res)) =>
            \/ MinuteIndex(sendLog[j].now) = MinuteIndex(sendLog[i].now)
            \/ sendLog[j].now - sendLog[i].now >= 604800 - 60

C5_Witness ==
    \E i, j \in DOMAIN sendLog : \E k \in DOMAIN decisions :
        /\ i < j
        /\ SameEntity(sendLog[i], sendLog[j])
        /\ Raised(sendLog[i].res) /\ Raised(sendLog[j].res)
        /\ MinuteIndex(sendLog[j].now) = MinuteIndex(sendLog[i].now)
        /\ sendLog[j].tick < tick
        /\ decisions[k].kind = sendLog[j].kind
        /\ decisions[k].ent = sendLog[j].ent
        /\ MinuteIndex(decisions[k].at) > MinuteIndex(sendLog[j].now)
        /\ ~decisions[k].due
        /\ Marker(sendLog[j].kind, sendLog[j].ent) = sendLog[i].before

\* C8 as stated: every cadence decision of a tick, its weekday/hour/minute
\* match and its cooldown check, uses the one instant at which the tick began.
C8_OneInstantPerTick ==
    \A k \in DOMAIN decisions :
        /\ decisions[k].at = tickStart
        /\ decisions[k].cool = tickStart

PrecedingDone(k) ==
    {sendLog[i].done : i \in {x \in DOMAIN sendLog :
        /\ sendLog[x].tick = tick
        /\ \E k2 \in 1..(k - 1) : /\ decisions[k2].kind = sendLog[x].kind
                                  /\ decisions[k2].ent = sendLog[x].ent}}

ClockAt(k) ==
    IF PrecedingDone(k) = {} THEN tickStart
    ELSE CHOOSE m \in PrecedingDone(k) : \A o \in PrecedingDone(k) : o <= m

FirstReminderOfNode(k) ==
    CHOOSE k0 \in DOMAIN decisions :
        /\ decisions[k0].kind = "reminder"
        /\ EventRow[decisions[k0].ent].node = EventRow[decisions[k].ent].node
        /\ \A k1 \in 1..(k0 - 1) :
              ~(/\ decisions[k1].kind = "reminder"
                /\ EventRow[decisions[k1].ent].node = EventRow[decisions[k].ent].node)

\* C8 amended: within one tick each entity's cadence decision is taken against
\* the clock as read when that entity is processed, that is the tick's start
\* plus the time the tick's earlier sends took: the weekday/hour/minute match
\* of a poll or of the summary uses that reading, the match of a reminder the
\* reading taken when its node's events were loaded, and every cooldown check
\* the reading at the check.  Two polls that pass the cooldown are both found
\* due or both found not due when their readings lie in the same minute.
C8_ClockReadPerEntity ==
    /\ \A k \in DOMAIN decisions :
          /\ decisions[k].cool = ClockAt(k)
          /\ decisions[k].kind \in {"poll", "summary"} =>
                decisions[k].at = decisions[k].cool
          /\ decisions[k].kind = "reminder" =>
                decisions[k].at = ClockAt(FirstReminderOfNode(k))
          /\ decisions[k].kind = "poll" =>
                (decisions[k].due <=>
                    /\ Weekday(decisions[k].at) = POLL_DAY
                    /\ Hour(decisions[k].at) = POLL_HOUR
                    /\ Minute(decisions[k].at) = POLL_MINUTE
                    /\ \/ decisions[k].last = None
                       \/ decisions[k].cool - decisions[k].last
                             >= COOLDOWN_DAYS * 86400)
    /\ \A k1, k2 \in DOMAIN decisions :
          (/\ decisions[k1].kind = "poll" /\ decisions[k2].kind = "poll"
           /\ decisions[k1].last = None /\ decisions[k2].last = None
           /\ MinuteIndex(decisions[k1].at) = MinuteIndex(decisions[k2].at)) =>
              decisions[k1].due = decisions[k2].due

C8_Witness ==
    \E k1, k2 \in DOMAIN decisions :
        /\ k1 < k2
        /\ decisions[k1].kind = "poll" /\ decisions[k2].kind = "poll"
        /\ decisions[k1].last = None /\ decisions[k2].last = None
        /\ decisions[k1].at = tickStart
        /\ decisions[k2].at = tickStart + REQUEST_TIMEOUT
        /\ decisions[k1].due
        /\ ~decisions[k2].due

(***************************************************************************)
(* Properties of the webhook endpoint                                      *)
(***************************************************************************)
\* the request handled by the step carried the valid secret and a JSON body
Accepted(l) == verify_webhook_secret(l.req.header) /\ l.req.body \in {"object", "number"}

\* ... and the body was a JSON object
Dispatched(l) == verify_webhook_secret(l.req.header) /\ l.req.body = "object"

Handled == updates' = updates + 1

AllTables ==
    <<Person, profile, Group, GroupPerson, ActivityDay, Poll, PollAnswer, next_pk>>

SentKinds(l) == {l.sent[i].kind : i \in DOMAIN l.sent}

\* C12: every request with the valid secret and a valid JSON body is answered
\* with the success acknowledgement (200), whatever keys it carries and also
\* when an outbound call made by a handler fails.
C12_ValidRequestAcknowledged ==
    Accepted(lastRequest) => lastRequest.status = 200

\* C13: a request with a missing or wrong secret is answered 403 and a request
\* whose body is not valid JSON is answered 400; in both cases no handler runs
\* and no table changes, and the secret is checked first.
C13_InvalidRequestRejected ==
    [][Handled =>
        LET l == lastRequest'
        IN  /\ ~verify_webhook_secret(l.req.header) =>
                  l.status = 403 /\ l.ran = {} /\ AllTables' = AllTables
            /\ verify_webhook_secret(l.req.header)
                 /\ l.req.body \in {"malformed", "undecodable"} =>
                  l.status = 400 /\ l.ran = {} /\ AllTables' = AllTables]_vars

\* C14: the handler of every recognised key present in the envelope runs; no
\* key's handling suppresses another's.
C14_EveryPresentKeyHandled ==
    Dispatched(lastRequest) =>
        \A k \in RecognisedKeys :
            Has(lastRequest.req.data, k) =>
                \/ k \in lastRequest.ran
                \/ k = "message" /\ "dm" \in lastRequest.ran

OnlyMessage(data) == \A k \in RecognisedKeys \ {"message"} : ~Has(data, k)

\* C15: a message of a private chat goes to direct-message handling only (a
\* reply is sent to a known sender; no Group, GroupPerson or ActivityDay row
\* is created or changed); a message of any other chat never gets
\* direct-message handling (no reply, no profile change by a command).
C15_PrivateMessageOnlyDirectHandling ==
    [][Handled /\ Dispatched(lastRequest') /\ Has(lastRequest'.req.data, "message") =>
        LET l == lastRequest'
            m == l.req.data.message
        IN  IF ChatType[m.chat] = "private"
            THEN /\ "dm" \in l.ran /\ "message" \notin l.ran
                 /\ m.from # NoUser => SentKinds(l) \cap {"reply", "join_prompt"} # {}
                 /\ OnlyMessage(l.req.data) =>
                       /\ Group' = Group
                       /\ GroupPerson' = GroupPerson
                       /\ ActivityDay' = ActivityDay
            ELSE /\ "dm" \notin l.ran
                 /\ SentKinds(l) \cap {"reply", "join_prompt"} = {}
                 /\ \A p \in UserIds : profile'[p].username_x = profile[p].username_x]_vars

C15_Witness ==
    /\ Dispatched(lastRequest)
    /\ lastRequest.req.data.message \in DirectMessages
    /\ lastRequest.req.data.message.text = XAlice
    /\ lastRequest.status = 200
    /\ profile[101].username_x = Alice
    /\ GroupPerson # {}

\* C16: an envelope whose only key is edited_message or channel_post changes
\* no table.
C16_EditedMessageIgnored ==
    [][Handled /\ Dispatched(lastRequest')
         /\ (\A k \in RecognisedKeys : ~Has(lastRequest'.req.data, k))
         /\ (\E k \in Keys \ RecognisedKeys : Has(lastRequest'.req.data, k)) =>
            AllTables' = AllTables /\ lastRequest'.status = 200]_vars

C16_Witness ==
    /\ Dispatched(lastRequest)
    /\ Has(lastRequest.req.data, "edited_message")
    /\ \A k \in RecognisedKeys : ~Has(lastRequest.req.data, k)
    /\ lastRequest.status = 200
    /\ updates = 2

\* C17 as stated: a join event for a person whose onboarded flag is already
\* True sends no further welcome.
C17_NoWelcomeOnceOnboarded ==
    [][\A p \in UserIds : profile[p].onboarded => welcomes'[p] = welcomes[p]]_vars

\* the chat_member event of the request is a join of a person in a group
JoinEvent(l) ==
    /\ Dispatched(l)
    /\ "chat_member" \in l.ran
    /\ l.req.data.chat_member.user # NoUser
    /\ l.req.data.chat_member.status \notin {"left", "kicked"}

\* C17 amended: every chat_member join event of a person that is not a bot, in
\* a group with a linked Node, sends a welcome, also when the person's
\* onboarded flag is already True; the flag is set after a successful send
\* and left as it was after a failed one.
C17_WelcomeOnEveryJoin ==
    [][Handled /\ JoinEvent(lastRequest') =>
        LET l == lastRequest'
            c == l.req.data.chat_member
        IN  c.user \notin BotIds /\ group_has_node(c.chat) =>
               /\ \E i \in DOMAIN l.sent :
                     /\ l.sent[i].kind = "welcome"
                     /\ l.sent[i].to = c.user
                     /\ l.sent[i].chat = c.chat
                     /\ l.sent[i].ok = ~l.req.fail
               /\ profile'[c.user].onboarded =
                     IF l.req.fail THEN profile[c.user].onboarded ELSE TRUE]_vars

C17_Witness ==
    /\ JoinEvent(lastRequest)
    /\ lastRequest.req.data.chat_member.user = 101
    /\ lastRequest.status = 200
    /\ welcomes[101] >= 2
    /\ profile[101].onboarded

\* C18: when a group message carries new_chat_members, exactly the new members
\* that are not bots and whose group has a linked Node are welcomed and get
\* onboarded = True.
C18_NewMembersWelcomed ==
    Dispatched(lastRequest) /\ "message" \in lastRequest.ran
        /\ is_group_chat(lastRequest.req.data.message.chat) =>
        LET m == lastRequest.req.data.message
        IN  \A p \in Range(m.new_chat_members) :
               LET welcomed == \E i \in DOMAIN lastRequest.sent :
                                  /\ lastRequest.sent[i].kind = "welcome"
                                  /\ lastRequest.sent[i].to = p
               IN  IF p \notin BotIds /\ group_has_node(m.chat)
                   THEN welcomed /\ (~lastRequest.req.fail => profile[p].onboarded)
                   ELSE ~welcomed

\* the membership of the person in the group is stored with this left flag
HasRow(rows, group, person, left) ==
    \E r \in rows : MemberKey(r, group, person) /\ r.left = left

\* C20: a join leaves the membership with left = False and a leave with
\* left = True; redelivering the request leaves the memberships as they were
\* after the first delivery; no request deletes a membership.
C20_MembershipIdempotent ==
    [][Handled =>
        LET l == lastRequest'
            d == l.req.data
        IN  /\ \A r \in GroupPerson :
                  \E q \in GroupPerson' : MemberKey(q, r.group, r.person)
            /\ Dispatched(l) /\ "chat_member" \in l.ran
                 /\ is_group_chat(d.chat_member.chat) /\ d.chat_member.user # NoUser =>
                  HasRow(GroupPerson', d.chat_member.chat, d.chat_member.user,
                         d.chat_member.status \in {"left", "kicked"})
            /\ Dispatched(l) /\ "message" \in l.ran /\ is_group_chat(d.message.chat)
                 /\ "chat_member" \notin l.ran =>
                  /\ d.message.left_chat_member # NoUser =>
                        HasRow(GroupPerson', d.message.chat,
                               d.message.left_chat_member, TRUE)
                  /\ \A p \in Range(d.message.new_chat_members) :
                        p # d.message.left_chat_member =>
                           HasRow(GroupPerson', d.message.chat, p, FALSE)
            /\ l.repeat => GroupPerson' = GroupPerson]_vars

C20_Witness ==
    /\ lastRequest.repeat
    /\ Dispatched(lastRequest)
    /\ \/ /\ "chat_member" \in lastRequest.ran
          /\ lastRequest.req.data.chat_member = [JoinUpdate EXCEPT !.status = "left"]
          /\ HasRow(GroupPerson, "g1", 101, TRUE)
       \/ /\ "message" \in lastRequest.ran
          /\ lastRequest.req.data.message = JoinInGroup
          /\ HasRow(GroupPerson, "g1", 102, FALSE)

(***************************************************************************)
(* Properties of concurrently handled requests                             *)
(***************************************************************************)
AllDone == \A i \in DOMAIN inflight : inflight[i].pc \in {"done", "failed"}

\* messages of person 101 in g1 on MessageDate: those counted before the
\* requests arrived and those of the requests in flight
ExpectedCount ==
    Cardinality(DeliveredFor(101, "g1", utc_date(MessageDate)))
        + Cardinality({i \in DOMAIN inflight : inflight[i].kind = "message"})

\* C11: when the requests of distinct text messages of one person, group and
\* date are handled concurrently, under every interleaving of their datastore
\* operations there is never a second ActivityDay row and, when all have
\* ended, the row's message_count counts every message.
C11_ConcurrentMessagesAllCounted ==
    LET rows == ActivityRows(101, "g1", utc_date(MessageDate))
    IN  /\ Cardinality(rows) <= 1
        /\ AllDone =>
              /\ Cardinality(rows) = (IF ExpectedCount > 0 THEN 1 ELSE 0)
              /\ \A r \in rows : r.message_count = ExpectedCount

C11_Witness ==
    /\ AllDone
    /\ \E i, j \in DOMAIN inflight :
          /\ i # j
          /\ inflight[i].kind = "message" /\ inflight[j].kind = "message"
          /\ inflight[i].tried_create /\ inflight[j].tried_create
    /\ \E r \in ActivityDay : TodaysRow(r) /\ r.message_count = 2

\* C19: once a person's onboarded flag is True it stays True, whatever
\* webhook events are handled later or concurrently.
C19_OnboardedNeverReset ==
    [][\A p \in UserIds : profile[p].onboarded => profile'[p].onboarded]_vars

(***************************************************************************)
(* Properties of the commands in direct messages                           *)
(***************************************************************************)
\* the person has a GroupPerson row that is not left in a group with a node
NodeMember(p) ==
    \E r \in GroupPerson : r.person = p /\ r.left = FALSE /\ group_has_node(r.group)

SameSettings(p) ==
    /\ profile'[p].privacy = profile[p].privacy
    /\ profile'[p].username_x = profile[p].username_x
    /\ profile'[p].bio = profile[p].bio

Commanded(l) ==
    /\ Dispatched(l)
    /\ Has(l.req.data, "message")
    /\ l.req.data.message \in CommandMessages

\* the template of the one message the request sent, "" when it sent another number
ReplyOf(l) ==
    IF Len(l.sent) = 1 /\ l.sent[1].kind = "reply" THEN l.sent[1].text[1] ELSE ""

\* C21: a direct message of a person who has no non-left membership in a
\* group with a node leaves the privacy, username_x and bio of every person
\* as they were, whatever its text, and the one message sent for it is the
\* join prompt.
C21_NonMemberCommandChangesNothing ==
    [][Handled /\ Commanded(lastRequest') /\ ~NodeMember(lastRequest'.req.data.message.from) =>
          /\ \A p \in UserIds : SameSettings(p)
          /\ Len(lastRequest'.sent) = 1
          /\ lastRequest'.sent[1].kind = "join_prompt"
          /\ lastRequest'.sent[1].chat = lastRequest'.req.data.message.chat]_vars

\* a former member of g1 with settings sent "/privacy on" and got the prompt
C21_Witness ==
    /\ Commanded(lastRequest)
    /\ lastRequest.req.data.message.from = 101
    /\ lastRequest.req.data.message.text = Privacy(<<" ", "o", "n">>)
    /\ \E r \in GroupPerson : r.person = 101 /\ r.group = "g1" /\ r.left
    /\ ~NodeMember(101)
    /\ SentKinds(lastRequest) = {"join_prompt"}
    /\ lastRequest.status = 200
    /\ profile[101].privacy = FALSE
    /\ profile[101].bio = <<"h", "i">>

\* command texts the handlers must reject: /privacy without an argument or
\* with one that is not on or off; /x without a handle, with an empty one,
\* one in angle brackets, one with a character outside [A-Za-z0-9_]; /bio
\* with angle brackets, with an embedded command, or too long
RejectedTexts ==
    {Privacy(<< >>), Privacy(<<" ", "m", "a", "y", "b", "e">>),
     X(<< >>), X(<<" ", "@">>), X(<<" ", "<", "b", ">">>), X(<<" ", "a", "-", "b">>),
     Bio(<<" ", "<", "b", ">", "h", "i">>),
     Bio(<<" ", "s", "e", "e", " ", "/", "s", "t", "a", "r", "t">>),
     Bio(<<" ">> \o BioOverLimit), Bio(<<" ", "<">> \o BioAtLimit)}

\* C22: a command with a rejected input leaves privacy, username_x and bio
\* of every person exactly as they were.
C22_RejectedInputChangesNothing ==
    [][Handled /\ Commanded(lastRequest')
          /\ lastRequest'.req.data.message.text \in RejectedTexts =>
              \A p \in UserIds : SameSettings(p)]_vars

\* a member whose settings are not the defaults got a rejection
C22_Witness ==
    /\ Commanded(lastRequest)
    /\ lastRequest.req.data.message.text \in RejectedTexts
    /\ lastRequest.req.data.message.from = 101
    /\ NodeMember(101)
    /\ lastRequest.status = 200
    /\ ReplyOf(lastRequest) \in {"privacy_status", "x_usage", "x_invalid", "x_html",
                                  "bio_html", "bio_command", "bio_too_long"}
    /\ profile[101].username_x = Alice
    /\ profile[101].bio = <<"h", "i">>
    /\ ~profile[101].privacy

\* C23: for a member, /bio with an argument of exactly BIO_MAX_LENGTH plain
\* characters stores the argument; with one character more the stored bio is
\* unchanged and the reply reports the length of the argument and the
\* maximum length.
C23_BioLengthBoundary ==
    [][Handled /\ Commanded(lastRequest')
          /\ NodeMember(lastRequest'.req.data.message.from) =>
          LET l == lastRequest'
              m == l.req.data.message
          IN  /\ m.text = Bio(<<" ">> \o BioAtLimit) =>
                    /\ profile'[m.from].bio = BioAtLimit
                    /\ ReplyOf(l) = "bio_set"
              /\ m.text = Bio(<<" ">> \o BioOverLimit) =>
                    /\ profile'[m.from].bio = profile[m.from].bio
                    /\ Len(l.sent) = 1
                    /\ l.sent[1].text =
                          <<"bio_too_long", BIO_MAX_LENGTH + 1, BIO_MAX_LENGTH>>]_vars

\* the bio of the maximum length was stored and a longer one then rejected
C23_Witness ==
    /\ Commanded(lastRequest)
    /\ lastRequest.req.data.message.text = Bio(<<" ">> \o BioOverLimit)
    /\ lastRequest.req.data.message.from = 101
    /\ ReplyOf(lastRequest) = "bio_too_long"
    /\ Len(profile[101].bio) = BIO_MAX_LENGTH

(***************************************************************************)
(* Properties of the attendance shown by the api                           *)
(***************************************************************************)
\* the most recent Monday 07:00:00 UTC at or before t
MondaySevenBefore(t) == ((t - 7 * 3600) \div 604800) * 604800 + 7 * 3600

\* t lies between that Monday 07:00 and the Friday 07:00 after it
InAttendingWindow(t) == t < MondaySevenBefore(t) + 4 * 86400

SaidYesThisWeek(p, n) ==
    \E a \in api.answers :
       /\ a.person = p /\ a.yes
       /\ \E q \in api.polls :
             q.id = a.poll /\ q.node = n /\ q.created >= MondaySevenBefore(api.now)

\* C24: a person is attending a node exactly when the instant of the query
\* lies in [Monday 07:00 UTC, Friday 07:00 UTC) of the week and the person has
\* a yes answer on a poll of the node created at or after that Monday 07:00;
\* from Friday 07:00 to the next Monday 07:00 nobody is attending and every
\* attending_count is 0.
C24_AttendingWindow ==
    api.done =>
        \A n \in Range(NodeIds) :
           /\ \A p \in PersonIds :
                 p \in api.attending[n] <=>
                     (InAttendingWindow(api.now) /\ SaidYesThisWeek(p, n))
           /\ ~InAttendingWindow(api.now) =>
                 api.attending[n] = {} /\ api.attending_count[n] = 0

\* in the last second of the window, 101 attends n1 by a yes on the poll
\* created at Monday 07:00:00 and 102, who said no, does not
C24_Witness ==
    /\ api.done
    /\ api.now = At(1, 4, 6, 59, 59)
    /\ [id |-> "pl1", node |-> "n1", created |-> At(1, 0, 7, 0, 0)] \in api.polls
    /\ api.attending["n1"] = {101}
    /\ [poll |-> "pl1", person |-> 102, yes |-> FALSE] \in api.answers
    /\ api.attending_count["n1"] = 1

(***************************************************************************)
(* Properties of the worker's ticks                                        *)
(***************************************************************************)
Ids(objects) == {objects[i].id : i \in DOMAIN objects}

\* the nodes whose poll cadence the current tick has evaluated
PollDecided == {decisions[d].ent : d \in {d \in DOMAIN decisions : decisions[d].kind = "poll"}}

Stored(n) == Node[n].exists /\ Node[n].group /\ ~Node[n].disabled

\* the step appends one attempt to sendLog
Attempted == Len(sendLog') = Len(sendLog) + 1

NewAttempt == sendLog'[Len(sendLog')]

\* C25: a tick works on exactly the nodes that, when it starts, exist, have a
\* group and are not disabled (so a node created or enabled before the tick
\* is among them); when the tick reaches its sleep each of them has had its
\* poll cadence evaluated, and no other node got a poll or a reminder in
\* the tick.
C25_EligibleNodesEvaluatedEachTick ==
    [][/\ tick' = tick + 1 => Ids(nodes') = {n \in Range(NodeIds) : Stored(n)}
       /\ pc'.at = "sleep" => PollDecided' = Ids(nodes')
       /\ Attempted /\ NewAttempt.kind = "poll" => NewAttempt.ent \in Ids(nodes')
       /\ Attempted /\ NewAttempt.kind = "reminder" =>
             EventRow[NewAttempt.ent].node \in Ids(nodes')]_vars

\* C26: the step of the weekly summary writes the marker only together with
\* a send that returned; when the global group is absent, or no yes answer
\* is stored on a poll with a node created in the last seven days, no send is
\* attempted, the marker stays as it was and nothing is reported.
NoRecentYes(answers, now) ==
    ~\E a \in answers : a.node # NoNode /\ a.created >= now - 7 * 86400

C26_SummaryMarkerOnlyWhenSent ==
    [][pc.at = "summary" /\ pc'.at = "cleanup" =>
         /\ last_weekly_summary_sent_at' # last_weekly_summary_sent_at =>
               /\ Attempted
               /\ NewAttempt.kind = "summary" /\ NewAttempt.res = "ok"
               /\ last_weekly_summary_sent_at' = NewAttempt.done
         /\ ~global_group_exists \/ NoRecentYes(yes_answers', clock) =>
               /\ Attempted => NewAttempt.res = "nothing"
               /\ last_weekly_summary_sent_at' = last_weekly_summary_sent_at
               /\ reported' = reported]_vars

\* the summary was due, the only yes answer was on a poll created more than
\* seven days before, and the marker written a week earlier was kept
C26_Witness ==
    /\ pc.at = "cleanup"
    /\ global_group_exists
    /\ \E d \in DOMAIN decisions : decisions[d].kind = "summary" /\ decisions[d].due
    /\ yes_answers # {}
    /\ \A a \in yes_answers : a.node = "n1" /\ a.created < clock - 7 * 86400
    /\ sendLog # << >>
    /\ sendLog[Len(sendLog)].res = "nothing"
    /\ last_weekly_summary_sent_at = sendLog[Len(sendLog)].before
    /\ last_weekly_summary_sent_at # None

\* C27: when the cleanup runs with more than MAX_PHOTOS photos it deletes as
\* many as exceed MAX_PHOTOS, none of them created after a photo it keeps;
\* with MAX_PHOTOS photos or fewer it deletes nothing, however old they are.
C27_CleanupKeepsNewest ==
    [][pc.at = "cleanup" /\ pc'.at = "sleep" =>
         IF should_cleanup_photos(clock) /\ Cardinality(MeetupPhoto) > MAX_PHOTOS
         THEN /\ MeetupPhoto' \subseteq MeetupPhoto
              /\ Cardinality(MeetupPhoto') = MAX_PHOTOS
              /\ \A d \in MeetupPhoto \ MeetupPhoto' :
                    \A k \in MeetupPhoto' : d.created <= k.created
         ELSE MeetupPhoto' = MeetupPhoto]_vars

\* two photos too many were deleted, the oldest two
C27_Witness ==
    /\ pc.at = "sleep"
    /\ \E d \in DOMAIN decisions : decisions[d].kind = "cleanup" /\ decisions[d].due
    /\ MeetupPhoto = Photos(MAX_PHOTOS + 2) \ Photos(2)

\* C28 as stated: a node's poll is due when the instant, in the node's
\* timezone, is in the target minute of Monday 07:00.
C28_PollDueInNodeTimezone ==
    \A d \in DOMAIN decisions :
       decisions[d].kind = "poll" /\ decisions[d].due =>
           LET local == decisions[d].cool + Node[decisions[d].ent].timezone
           IN  /\ Weekday(local) = POLL_DAY
               /\ Hour(local) = POLL_HOUR
               /\ Minute(local) = POLL_MINUTE

\* C28 amended: a node's poll is due when the instant, in UTC, is in the
\* target minute of Monday 07:00, whatever the node's timezone; a node
\* without marker is due in every evaluation of that minute.
C28_PollDueAtUtcInstant ==
    \A d \in DOMAIN decisions :
       decisions[d].kind = "poll" =>
           LET utc == decisions[d].cool
               target == /\ Weekday(utc) = POLL_DAY
                         /\ Hour(utc) = POLL_HOUR
                         /\ Minute(utc) = POLL_MINUTE
           IN  /\ decisions[d].due => target
               /\ target /\ decisions[d].last = None => decisions[d].due

\* n1 (UTC) and n2 (UTC+8) are found due in the same minute of one tick
C28_Witness ==
    \E d1, d2 \in DOMAIN decisions :
       /\ decisions[d1].kind = "poll" /\ decisions[d2].kind = "poll"
       /\ decisions[d1].ent = "n1" /\ decisions[d2].ent = "n2"
       /\ decisions[d1].due /\ decisions[d2].due
       /\ Node["n1"].timezone # Node["n2"].timezone
       /\ MinuteIndex(decisions[d1].cool) = MinuteIndex(decisions[d2].cool)

\* C29: a send that returned is followed by the write of one field, the
\* marker of the entity it was for: the other markers and the other columns
\* of the Node rows are as they were stored before the step, also when a row
\* was changed after the worker had read it.
C29_OnlyTheMarkerIsWritten ==
    [][Attempted /\ NewAttempt.res = "ok" =>
         /\ Node' = Node
         /\ last_poll_sent_at' =
               IF NewAttempt.kind = "poll"
               THEN [last_poll_sent_at EXCEPT ![NewAttempt.ent] = NewAttempt.done]
               ELSE last_poll_sent_at
         /\ last_reminder_sent_at' =
               IF NewAttempt.kind = "reminder"
               THEN [last_reminder_sent_at EXCEPT ![NewAttempt.ent] = NewAttempt.done]
               ELSE last_reminder_sent_at
         /\ last_weekly_summary_sent_at' =
               IF NewAttempt.kind = "summary" THEN NewAttempt.done
               ELSE last_weekly_summary_sent_at]_vars

\* n1 was disabled through the admin after the tick had read it; its poll
\* was sent, the marker written and the row is still disabled
C29_Witness ==
    /\ sendLog # << >>
    /\ LET a == sendLog[Len(sendLog)]
       IN  /\ a.kind = "poll" /\ a.ent = "n1" /\ a.res = "ok" /\ a.tick = tick
           /\ last_poll_sent_at["n1"] = a.done
    /\ pc.at = "events"
    /\ nodes[pc.i].id = "n1"
    /\ ~nodes[pc.i].row.disabled
    /\ Node["n1"].disabled

\* C30: whatever fails for one node, the tick reaches its sleep only after
\* every node it works on has had its poll cadence evaluated and the weekly
\* summary and the photo cleanup have run.
C30_NoFailureEndsTheTick ==
    pc.at = "sleep" =>
        /\ PollDecided = Ids(nodes)
        /\ \E d \in DOMAIN decisions : decisions[d].kind = "cleanup"
        /\ global_group_exists =>
              \E d \in DOMAIN decisions : decisions[d].kind = "summary"

(***************************************************************************)
(* Further properties of the time-window predicates                        *)
(***************************************************************************)
PolicyLocal == policy.now + policy.tz

\* C32: when the reminder predicate is true for a non-drinks event, the
\* minute 30 minutes after the current one is the event's time of day on the
\* node's event day, in the node's timezone.
C32_ReminderThirtyMinutesBeforeEvent ==
    (/\ policy.done /\ policy.kind = "reminder" /\ policy.result
     /\ policy.type # TYPE_DRINKS) =>
        LET event == PolicyLocal + REMINDER_MINUTES_BEFORE * 60
        IN  /\ Weekday(event) = policy.event_day
            /\ Hour(event) = policy.hour
            /\ Minute(event) = policy.minute

\* the current minute is the target minute of the cadence of the input
PolicyTargetMinute ==
    IF policy.kind = "poll" THEN policy.now % 604800 \in 25200..25259
    ELSE IF policy.kind = "summary" THEN policy.now % 604800 \in 370800..370859
    ELSE /\ Weekday(PolicyLocal) = policy.event_day
         /\ (PolicyLocal % 86400) \div 60 =
               (policy.hour * 60 + policy.minute
                  - (IF policy.type = TYPE_DRINKS THEN 0 ELSE REMINDER_MINUTES_BEFORE))
               % 1440

\* the marker was written in the target minute a week before the current
\* minute, or within one request timeout after it
MarkerOfLastWeek ==
    /\ policy.last # None
    /\ policy.last - (policy.now - (policy.now % 60) - 604800)
          \in 0..(60 + REQUEST_TIMEOUT - 1)

\* C33: in the target minute of the week after the one in which (or shortly
\* after which) the marker was written, the predicate is true: the cooldown
\* of 6 days does not reach the next weekly occurrence.
C33_CooldownShorterThanAWeek ==
    (policy.done /\ PolicyTargetMinute /\ MarkerOfLastWeek) => policy.result

\* a reminder marked 89 seconds into last week's target minute is due at
\* the first second of this week's
C33_Witness ==
    /\ policy.done /\ policy.kind = "reminder"
    /\ policy.type = "intros" /\ policy.hour = 9 /\ policy.minute = 30
    /\ policy.event_day = 3 /\ policy.tz = 0
    /\ PolicyLocal = At(2, 3, 9, 0, 0)
    /\ policy.last = policy.now - (604800 - 89)
    /\ policy.result

(***************************************************************************)
(* Further properties of the direct-message commands and of the api        *)
(***************************************************************************)
\* C34: no stored bio contains "<" or ">" or a "/" followed by a word
\* character, whatever /bio commands were handled.
C34_StoredBioHasNoMarkup ==
    \A p \in PersonIds :
       /\ ~contains(profile[p].bio, "<")
       /\ ~contains(profile[p].bio, ">")
       /\ ~re_search_command(profile[p].bio)

\* C38: the attending_count reported for a node is the number of persons
\* in the node's attending set.
C38_CountIsNumberOfAttendingPersons ==
    api.done =>
        \A n \in Range(NodeIds) : api.attending_count[n] = Cardinality(api.attending[n])

\* C35: when the handlers of two accepted commands of one person, "/x alice"
\* and "/bio hi", have both finished, both values are stored, whatever the
\* interleaving of their datastore operations.
C35_ConcurrentCommandsBothStored ==
    (/\ {inflight[i].kind : i \in DOMAIN inflight} = {"dm", "bio"}
     /\ \A i \in DOMAIN inflight : inflight[i].pc \in {"done", "failed"}
     /\ is_member_of_any_node(Db, 101)) =>
        /\ profile[101].username_x = Alice
        /\ profile[101].bio = <<"h", "i">>

\* ---- Further properties of the webhook handlers ----

\* the request carries a join or a leave of person p in group g
JoinLeaveFor(l, g, p) ==
    /\ Dispatched(l)
    /\ \/ /\ "message" \in l.ran
          /\ l.req.data.message.chat = g
          /\ \/ p \in Range(l.req.data.message.new_chat_members)
             \/ l.req.data.message.left_chat_member = p
       \/ /\ "chat_member" \in l.ran
          /\ l.req.data.chat_member.chat = g
          /\ l.req.data.chat_member.user = p

\* the request carries a leave of person p in group g
LeaveFor(l, g, p) ==
    /\ Dispatched(l)
    /\ \/ /\ "message" \in l.ran
          /\ l.req.data.message.chat = g
          /\ l.req.data.message.left_chat_member = p
       \/ /\ "chat_member" \in l.ran
          /\ l.req.data.chat_member.chat = g
          /\ l.req.data.chat_member.user = p
          /\ l.req.data.chat_member.status \in {"left", "kicked"}

\* the request carries a text message written by person p in group g
TextBy(l, g, p) ==
    /\ Dispatched(l)
    /\ "message" \in l.ran
    /\ l.req.data.message.chat = g
    /\ l.req.data.message.from = p
    /\ l.req.data.message.text # << >>

\* a membership row of (g, p) exists before and after and its left flag differs
LeftChanged(g, p) ==
    \E r \in GroupPerson, q \in GroupPerson' :
        MemberKey(r, g, p) /\ MemberKey(q, g, p) /\ q.left # r.left

LeftNow(g, p) == \E q \in GroupPerson' : MemberKey(q, g, p) /\ q.left

\* C36: the left flag of an existing membership changes only in a request that
\* carries a join or a leave (new_chat_members, left_chat_member, chat_member)
\* of that person in that group.
C36_LeftChangedOnlyByJoinLeave ==
    [][Handled =>
        \A g \in ChatIds, p \in UserIds :
            LeftChanged(g, p) => JoinLeaveFor(lastRequest', g, p)]_vars

\* C36 as the code has it: the flag of an existing membership changes only in
\* a request that carries a join or a leave of that person in that group or a
\* text message written by that person in that group; it becomes TRUE only
\* with a leave, and a text message alone clears it.
C36_LeftChangedByJoinLeaveOrText ==
    [][Handled =>
        \A g \in ChatIds, p \in UserIds :
            /\ LeftChanged(g, p) =>
                  /\ JoinLeaveFor(lastRequest', g, p) \/ TextBy(lastRequest', g, p)
                  /\ LeftNow(g, p) => LeaveFor(lastRequest', g, p)
            /\ TextBy(lastRequest', g, p) /\ is_group_chat(g)
                 /\ ~LeaveFor(lastRequest', g, p) =>
                  HasRow(GroupPerson', g, p, FALSE)]_vars

C36_Witness ==
    /\ updates = 1
    /\ welcomes[101] = 1
    /\ TextBy(lastRequest, "g1", 101)
    /\ OnlyMessage(lastRequest.req.data)
    /\ ~JoinLeaveFor(lastRequest, "g1", 101)
    /\ HasRow(GroupPerson, "g1", 101, FALSE)
    /\ Cardinality(ActivityDay) = 1
    /\ \A a \in ActivityDay : a.message_count = 1

\* the Poll row of a telegram id, and the counts a poll update carries
PollRow(rows, poll_id) == {r \in rows : r.telegram_id = poll_id}

FirstCount(voter_counts) == IF Len(voter_counts) >= 2 THEN voter_counts[1] ELSE 0

SecondCount(voter_counts) == IF Len(voter_counts) >= 2 THEN voter_counts[2] ELSE 0

\* starts of attendance windows around the creation of the polls
WindowStarts == {RequestTime - 172800, RequestTime - 86400, RequestTime, RequestTime + 1}

\* the polls as the attendance queries read them
PollsOf(rows) ==
    {[id |-> r.telegram_id, node |-> r.node, created |-> r.created] : r \in rows}

\* C37: a request with a top-level poll key for an existing Poll leaves that
\* Poll's node and creation time as they were and sets its question and its
\* yes and no counts to the question and to the voter counts of the first and
\* second option (0 with fewer than two options); every other Poll row is
\* unchanged, and for every node and window start the yes answers counted as
\* attending are the same before and after.
C37_PollUpdateKeepsNodeAndCreated ==
    [][Handled /\ Dispatched(lastRequest') /\ "poll" \in lastRequest'.ran
         /\ PollRow(Poll, lastRequest'.req.data.poll.id) # {} =>
        LET p == lastRequest'.req.data.poll
        IN  /\ \A r \in PollRow(Poll, p.id) :
                  PollRow(Poll', p.id) =
                      {[r EXCEPT !.question = p.question,
                                 !.yes_count = FirstCount(p.voter_counts),
                                 !.no_count = SecondCount(p.voter_counts)]}
            /\ \A r \in Poll : r.telegram_id # p.id => r \in Poll'
            /\ \A q \in Poll' : \E r \in Poll : r.telegram_id = q.telegram_id
            /\ \A n \in Range(NodeIds), w \in WindowStarts :
                  attending_answers(n, w, PollsOf(Poll'), PollAnswer)
                      = attending_answers(n, w, PollsOf(Poll), PollAnswer)]_vars

C37_Witness ==
    /\ updates = 2
    /\ Dispatched(lastRequest)
    /\ lastRequest.ran = {"poll"}
    /\ lastRequest.req.data.poll.voter_counts = <<3, 2>>
    /\ Poll = {[SentPoll EXCEPT !.question = "Who comes?", !.yes_count = 3,
                                !.no_count = 2]}
    /\ \E a \in PollAnswer : a.poll = "pl1" /\ a.person = 101 /\ a.yes
    /\ attending_answers("n1", RequestTime - 86400, PollsOf(Poll), PollAnswer) # {}
    /\ attending_answers("n1", RequestTime, PollsOf(Poll), PollAnswer) = {}

\* ---- Further properties of the worker loop ----

\* the tick in progress was ended by an exception: the worker sleeps without
\* having reached the photo cleanup
Escaped ==
    /\ pc.at = "sleep"
    /\ ~\E d \in DOMAIN decisions : decisions[d].kind = "cleanup"

OkPolls(n, m) ==
    {k \in DOMAIN sendLog :
        /\ sendLog[k].kind = "poll" /\ sendLog[k].ent = n
        /\ sendLog[k].res = "ok" /\ sendLog[k].now \div 60 = m}

PairMinutes == {c \div 60 : c \in PairClocks} \cup {(c + 60) \div 60 : c \in PairClocks}

\* C31: with two worker processes, the poll of a node is sent at most once in
\* a target minute, whatever the interleaving.
C31_SentOncePerMinute ==
    \A n \in Range(NodeIds), m \in PairMinutes : Cardinality(OkPolls(n, m)) <= 1

\* C31 as the code has it: in a target minute each process sends the poll of a
\* node at most once, so two processes send it at most twice; a process sends
\* only when the marker it loaded was unset or at least COOLDOWN_DAYS days old,
\* and of two sends in one minute the later one was decided by a process that
\* had loaded the node before the earlier send stored its marker.
C31_SentOncePerProcess ==
    \A n \in Range(NodeIds), m \in PairMinutes :
        /\ \A j, k \in OkPolls(n, m) : sendLog[j].w = sendLog[k].w => j = k
        /\ \A k \in OkPolls(n, m) :
              \/ sendLog[k].before = None
              \/ TimedeltaDays(sendLog[k].now - sendLog[k].before) >= COOLDOWN_DAYS
        /\ \A j, k \in OkPolls(n, m) :
              j < k => sendLog[k].before # sendLog[j].done

\* both processes sent the poll of n1 in the minute Monday 07:00, the second
\* after the first had stored its marker; and a process that loaded the node
\* afterwards did not send
C31_Witness ==
    /\ Cardinality(OkPolls("n1", At(1, 0, 7, 0, 0) \div 60)) = 2
    /\ last_poll_sent_at["n1"] = At(1, 0, 7, 0, 0)
    /\ \E w \in Workers :
          /\ workers[w].ticks = 2
          /\ workers[w].at = "idle"
          /\ workers[w].last["n1"] = At(1, 0, 7, 0, 0)
    /\ clock = At(1, 0, 7, 0, 30)

====
